---- MODULE Spec2Model ----
(***************************************************************************)
(* State-machine model of the taskman message-routing core:                *)
(*   - RedisStore.check_rate_limit      (src/api/services/redis_store.py)  *)
(*   - AIDirector                       (src/api/services/director.py)     *)
(*   - create_calendar_event, parse_message_gpt   (src/workers/jobs.py)    *)
(*   - parse_message, /parse            (src/api/services/parser.py,       *)
(*                                       src/api/routers/webhooks.py)      *)
(* Time is counted in whole seconds.  Confidence thresholds are kept in    *)
(* hundredths (0.5 is 50).                                                 *)
(***************************************************************************)
EXTENDS Integers, Sequences, FiniteSets, TLC

(* ------------------------------ bounds --------------------------------- *)
MaxN == 2          \* largest max_requests tried by the rate-limiter runs
MaxW == 2          \* largest window_seconds tried by the rate-limiter runs
MaxTime == 3       \* the clock of the rate-limiter runs stops here
MaxCalls == 4      \* check_rate_limit calls started in one rate-limiter run

Tasks == {"t1", "t2"}
DirTasks == {"t1"}     \* the director runs decide one message at a time

Max0(x) == IF x > 0 THEN x ELSE 0

VARIABLES
    now,        \* wall clock, seconds
    counter,    \* the store's rate-limit keys: key -> [val, hasTTL, exp]
    rl,         \* task -> frame of its running check_rate_limit call
    limitN,     \* max_requests the rate-limiter runs pass for their key
    windowW,    \* window_seconds the rate-limiter runs pass for their key
    ncalls,     \* check_rate_limit calls started so far
    hist,       \* history: key -> calls, creation time, answers of the window
    allowedAt,  \* history: key -> times of the calls answered "allowed"
    obs,        \* history: task -> [ord, created, at] of its last INCR
    idem,       \* the store's idempotency keys: key -> [present, value, exp]
    job,        \* delivery slot -> frame of create_calendar_event
    provider,   \* the events the calendar provider has created, in order
    dbUser,     \* the users table has the user
    dbProvider, \* provider of the user's active calendar integration
    ndeliv,     \* deliveries of create_calendar_event so far
    lastOk,     \* history: (user, title, start) -> last successful completion
    dir,        \* task -> frame of its AIDirector decision
    ndecisions, \* decisions started so far
    par,        \* task -> frame of its message-parsing request
    nparse,     \* parsing requests started so far
    loc,        \* frame of the running parse_date_local call
    pending,    \* the store's pending events: id -> record
    shown,      \* id -> the event's keyboard has been shown
    cb,         \* task -> frame of its bot handler
    reports,    \* history: id -> answers "created" and "expired" given
    ncb,        \* bot handlers started so far
    oauth,      \* the store's OAuth state keys: token -> [present, provider]
    issued,     \* tokens create_oauth_state has given out
    oc,         \* task -> frame of its consume_oauth_state call
    consumed,   \* history: token -> calls that returned its provider
    nconsume,   \* consume_oauth_state calls started so far
    zset,       \* the store's middleware sets: kind -> [members, exp]
    mw,         \* task -> frame of its event in RateLimitMiddleware
    passedAt,   \* history: kind -> timestamps of the events handled
    mwLimit,    \* the limits the middleware was constructed with
    mwClock,    \* time.time(), in instants
    nevents     \* events that entered the middleware so far

rateVars == <<counter, rl, hist, allowedAt, obs>>
rlRunVars == <<limitN, windowW, ncalls>>
jobVars == <<idem, job, provider, dbUser, dbProvider, ndeliv, lastOk>>
dirVars == <<dir, ndecisions>>
parseVars == <<par, nparse>>
localVars == <<loc>>
botVars == <<pending, shown, cb, reports, ncb>>
oauthVars == <<oauth, issued, oc, consumed, nconsume>>
mwVars == <<zset, mw, passedAt, mwLimit, mwClock, nevents>>
uiVars == <<botVars, oauthVars, mwVars>>
coreVars == <<jobVars, dirVars, parseVars, localVars>>
appVars == <<coreVars, uiVars>>

(* ------------------------- the store's counters ------------------------ *)
RLKey == "rate:k"
GptHourKey == "rate:gpt:hour:u"
GptDayKey == "rate:gpt:day:u"
WhisperHourKey == "rate:whisper:hour:u"
WhisperDayKey == "rate:whisper:day:u"
GptJobKey == "rate:gpt:u"
RateKeys == {RLKey, GptHourKey, GptDayKey, WhisperHourKey, WhisperDayKey,
             GptJobKey}

\* a key that does not exist
Absent == [val |-> 0, hasTTL |-> FALSE, exp |-> 0]

\* SET key 1 in place of INCR
RedisIncrSet(c, key) ==
    [c EXCEPT ![key] = IF c[key].val = 0
                         THEN [val |-> 1, hasTTL |-> FALSE, exp |-> 0]
                         ELSE @]

\* INCR: a missing key is created at 1 without a time-to-live
RedisIncr(c, key) ==
    [c EXCEPT ![key] = IF c[key].val = 0
                         THEN [val |-> 1, hasTTL |-> FALSE, exp |-> 0]
                         ELSE [@ EXCEPT !.val = @ + 1]]

\* EXPIRE key seconds: no effect on a missing key
RedisExpire(c, key, seconds, t) ==
    [c EXCEPT ![key] = IF c[key].val = 0
                         THEN @
                         ELSE [@ EXCEPT !.hasTTL = TRUE, !.exp = t + seconds]]

\* the store drops every key whose time-to-live has run out at time t
RedisPurge(c, t) ==
    [k \in DOMAIN c |-> IF c[k].hasTTL /\ c[k].exp <= t THEN Absent ELSE c[k]]

(* ------------------------- check_rate_limit ---------------------------- *)
IdleFrame ==
    [pc |-> "idle", key |-> RLKey, max |-> 0, win |-> 0, current |-> 0,
     allowed |-> FALSE, remaining |-> 0, raised |-> FALSE]

IsAllowedStrict(current, max_requests) == current < max_requests

IsAllowedOffByOne(current, max_requests) == current <= max_requests + 1

IsAllowed(current, max_requests) == current <= max_requests

Remaining(current, max_requests) == Max0(max_requests - current)

\* the normal return: (is_allowed, remaining)
RateReturn(f) ==
    [f EXCEPT !.pc = "ret",
              !.allowed = IsAllowed(f.current, f.max),
              !.remaining = Remaining(f.current, f.max)]

\* the except branch refusing the caller
RateFailClosed(f) ==
    [f EXCEPT !.pc = "ret", !.allowed = FALSE, !.remaining = 0,
              !.raised = TRUE]

\* the except branch: fail open
RateFailOpen(f) ==
    [f EXCEPT !.pc = "ret", !.allowed = TRUE, !.remaining = f.max,
              !.raised = TRUE]

NoObs == [ord |-> 0, created |-> 0, at |-> 0]
NoHist == [calls |-> 0, created |-> 0, winAllowed |-> 0, winRejected |-> 0]

\* history kept when an INCR reaches the store
HistIncr(h, key, t) ==
    [h EXCEPT ![key] = IF counter[key].val = 0
                         THEN [NoHist EXCEPT !.calls = 1, !.created = t]
                         ELSE [@ EXCEPT !.calls = @ + 1]]

\* history kept when a call is answered
HistAnswer(h, f) ==
    IF f.allowed THEN [h EXCEPT ![f.key].winAllowed = @ + 1]
                 ELSE [h EXCEPT ![f.key].winRejected = @ + 1]

\* a task enters check_rate_limit(key, max_requests, window_seconds)
RateCall(p, key, max_requests, window_seconds) ==
    rl' = [rl EXCEPT ![p] = [IdleFrame EXCEPT !.pc = "incr", !.key = key,
                                   !.max = max_requests,
                                   !.win = window_seconds]]

\* current = await self.client.incr(rate_key), the store answering
RateIncr(p) ==
    /\ rl[p].pc = "incr"
    /\ LET key == rl[p].key
           c2 == RedisIncr(counter, key)
           f1 == [rl[p] EXCEPT !.current = c2[key].val]
           f2 == IF f1.current = 1 THEN [f1 EXCEPT !.pc = "expire"]
                                   ELSE RateReturn(f1)
           h2 == HistIncr(hist, key, now)
       IN /\ counter' = c2
          /\ rl' = [rl EXCEPT ![p] = f2]
          /\ obs' = [obs EXCEPT ![p] = [ord |-> h2[key].calls,
                                        created |-> h2[key].created,
                                        at |-> now]]
          /\ hist' = IF f2.pc = "ret" THEN HistAnswer(h2, f2) ELSE h2
          /\ allowedAt' = IF f2.pc = "ret" /\ f2.allowed
                            THEN [allowedAt EXCEPT ![key] = Append(@, now)]
                            ELSE allowedAt
    /\ UNCHANGED <<now, limitN, windowW, ncalls>>
    /\ UNCHANGED appVars

\* await self.client.expire(rate_key, window_seconds), the store answering
RateExpire(p) ==
    /\ rl[p].pc = "expire"
    /\ LET key == rl[p].key
           f2 == RateReturn(rl[p])
       IN /\ counter' = RedisExpire(counter, key, rl[p].win, now)
          /\ rl' = [rl EXCEPT ![p] = f2]
          /\ hist' = HistAnswer(hist, f2)
          /\ allowedAt' = IF f2.allowed
                            THEN [allowedAt EXCEPT ![key] = Append(@, obs[p].at)]
                            ELSE allowedAt
    /\ UNCHANGED <<now, limitN, windowW, ncalls, obs>>
    /\ UNCHANGED appVars

\* the incr raises: the command was lost, or applied and its answer lost
RateIncrRaise(p) ==
    /\ rl[p].pc = "incr"
    /\ \E applied \in BOOLEAN :
         LET key == rl[p].key
         IN /\ counter' = IF applied THEN RedisIncr(counter, key) ELSE counter
            /\ hist' = IF applied THEN HistIncr(hist, key, now) ELSE hist
    /\ rl' = [rl EXCEPT ![p] = RateFailOpen(rl[p])]
    /\ UNCHANGED <<now, limitN, windowW, ncalls, allowedAt, obs>>
    /\ UNCHANGED appVars

\* the expire raises: the command was lost, or applied and its answer lost
RateExpireRaise(p) ==
    /\ rl[p].pc = "expire"
    /\ \E applied \in BOOLEAN :
         counter' = IF applied
                      THEN RedisExpire(counter, rl[p].key, rl[p].win, now)
                      ELSE counter
    /\ rl' = [rl EXCEPT ![p] = RateFailOpen(rl[p])]
    /\ UNCHANGED <<now, limitN, windowW, ncalls, hist, allowedAt, obs>>
    /\ UNCHANGED appVars

\* the task is cancelled while suspended on the store (job timeout, shutdown)
RateCancel(p) ==
    /\ rl[p].pc \in {"incr", "expire"}
    /\ rl' = [rl EXCEPT ![p] = IdleFrame]
    /\ UNCHANGED <<now, counter, limitN, windowW, ncalls, hist, allowedAt, obs>>
    /\ UNCHANGED appVars

\* one second passes; keys whose time-to-live ran out are gone
PurgeHist(h, c2) ==
    [k \in DOMAIN h |-> IF c2[k].val = 0 THEN NoHist ELSE h[k]]

(* ----------------------- create_calendar_event ------------------------ *)
IdemTTL == 3600        \* seconds an idempotency record lives
MaxDeliveries == 2     \* deliveries of the job in one run
JobClockStep == 1800   \* seconds the clock of the job runs moves at a time
MaxJobTime == 3600     \* the clock of the job runs stops here

Slots == {"j1", "j2"}
Users == {"u1"}
NoTitle == "<absent>"
Titles == {NoTitle, "", "A"}
Starts == {"2025-01-11 15:00"}
Extras == {[add_conference |-> FALSE, conference_type |-> "none"],
           [add_conference |-> TRUE, conference_type |-> "google_meet"]}
Providers == {"google_calendar", "outlook", "apple_calendar", "yandex_calendar"}
NoIntegration == "none"

NoExtra == [add_conference |-> FALSE, conference_type |-> "none"]
NoEvent == [id |-> 0, conf |-> "none"]

JobArgs == [user : Users, title : Titles, start : Starts, extra : Extras]

\* a key over every argument of the job
IdemKeyAllArgs(a) == <<a.user, a.title, a.start, a.extra>>

\* _generate_idempotency_key: the digest of user_id, title (a missing title
\* reads as ""), and str(start_datetime); the digest is taken as injective
IdemKey(a) ==
    <<a.user, IF a.title = NoTitle THEN "" ELSE a.title, a.start, NoExtra>>

\* the logical event of a delivery: the arguments as the caller gave them
LogicalEvent(a) == <<a.user, a.title, a.start>>
LogicalEvents == {LogicalEvent(a) : a \in JobArgs}

IdemKeys == {IdemKey(a) : a \in JobArgs} \cup {IdemKeyAllArgs(a) : a \in JobArgs}

NoResult == [success |-> FALSE, error |-> "", form |-> "none", id |-> 0,
             conf |-> "none"]
NoRecord == [present |-> FALSE, value |-> NoResult, exp |-> 0]

ErrorResult(msg) == [NoResult EXCEPT !.error = msg]

\* the conference the job asks the provider for
ConferenceFor(prov, extra) ==
    IF prov = "google_calendar" /\ extra.add_conference
         /\ extra.conference_type = "google_meet" THEN "meet"
    ELSE IF prov = "outlook" /\ extra.add_conference
         /\ extra.conference_type # "zoom" THEN "teams"
    ELSE "none"

\* response = {"success": True, "event": result}, result the connector's object
Response(evt) ==
    [success |-> TRUE, error |-> "", form |-> "object", id |-> evt.id,
     conf |-> evt.conf]

\* json.dumps(response, default=str): the event object is written as text
JsonDumps(r) == [r EXCEPT !.form = IF r.form = "object" THEN "text" ELSE @]

\* json.loads(existing): the event stays the text it was written as
JsonLoads(v) == v

NoPrior == [has |-> FALSE, stored |-> NoResult, age |-> 0]

\* a delivery slot: the arguments are kept only as long as the code reads them
IdleJob ==
    [pc |-> "idle", key |-> <<"u1", "", "2025-01-11 15:00", NoExtra>>,
     le |-> <<"u1", "", "2025-01-11 15:00">>,
     extra |-> NoExtra, evt |-> NoEvent, result |-> NoResult,
     called |-> FALSE, prior |-> NoPrior]

JobFree(j) == job[j].pc \in {"idle", "done", "raised", "crashed"}

\* what a sequential caller may rely on: the last successful completion for
\* the same logical event, less than the time-to-live ago, with no write of
\* another execution since
PriorOf(le) ==
    IF lastOk[le].has /\ now - lastOk[le].at < IdemTTL
      THEN [has |-> TRUE, stored |-> lastOk[le].stored,
            age |-> now - lastOk[le].at]
      ELSE NoPrior

NoLastOk == [has |-> FALSE, at |-> 0, stored |-> NoResult]

\* lines 59-69: a delivery computes the key and reads it; a record found is
\* returned, otherwise the job goes on to the database
JobStart(j, a) ==
    /\ JobFree(j)
    /\ ndeliv < MaxDeliveries
    /\ ndeliv' = ndeliv + 1
    /\ LET key == IdemKey(a)
           f == [IdleJob EXCEPT !.key = key, !.le = LogicalEvent(a),
                                !.extra = a.extra,
                                !.prior = PriorOf(LogicalEvent(a))]
       IN job' = [job EXCEPT ![j] =
                    IF idem[key].present
                      THEN [f EXCEPT !.pc = "done", !.extra = NoExtra,
                                     !.result = JsonLoads(idem[key].value)]
                      ELSE [f EXCEPT !.pc = "db"]]
    /\ UNCHANGED <<now, idem, provider, dbUser, dbProvider, lastOk>>
    /\ UNCHANGED <<rateVars, rlRunVars, dirVars, parseVars, localVars, uiVars>>

\* line 65 raises: the read is outside the try block, the job raises
JobStartRaise(j, a) ==
    /\ JobFree(j)
    /\ ndeliv < MaxDeliveries
    /\ ndeliv' = ndeliv + 1
    /\ a \in JobArgs
    /\ job' = [job EXCEPT ![j] = [IdleJob EXCEPT !.pc = "raised"]]
    /\ UNCHANGED <<now, idem, provider, dbUser, dbProvider, lastOk>>
    /\ UNCHANGED <<rateVars, rlRunVars, dirVars, parseVars, localVars, uiVars>>

\* lines 75-92: the user and the active calendar integration are read
JobLookup(j) ==
    /\ job[j].pc = "db"
    /\ job' = [job EXCEPT ![j] =
                 IF ~dbUser
                   THEN [@ EXCEPT !.pc = "done", !.extra = NoExtra,
                                  !.result = ErrorResult("User not found")]
                 ELSE IF dbProvider = NoIntegration
                   THEN [@ EXCEPT !.pc = "done", !.extra = NoExtra,
                                  !.result = ErrorResult("No calendar integration found")]
                 ELSE IF dbProvider \notin Providers
                   THEN [@ EXCEPT !.pc = "done", !.extra = NoExtra,
                                  !.result = ErrorResult("Unknown provider")]
                 ELSE [@ EXCEPT !.pc = "create"]]
    /\ UNCHANGED <<now, idem, provider, dbUser, dbProvider, ndeliv, lastOk>>
    /\ UNCHANGED <<rateVars, rlRunVars, dirVars, parseVars, localVars, uiVars>>

\* lines 95-136: the connector creates the event and returns it
JobCreate(j) ==
    /\ job[j].pc = "create"
    /\ LET evt == [id |-> Len(provider) + 1,
                   conf |-> ConferenceFor(dbProvider, job[j].extra)]
       IN /\ provider' = Append(provider, [key |-> job[j].key, at |-> now,
                                           id |-> evt.id])
          /\ job' = [job EXCEPT ![j] = [@ EXCEPT !.pc = "setex", !.evt = evt,
                                                 !.extra = NoExtra,
                                                 !.called = TRUE]]
    /\ UNCHANGED <<now, idem, dbUser, dbProvider, ndeliv, lastOk>>
    /\ UNCHANGED <<rateVars, rlRunVars, dirVars, parseVars, localVars, uiVars>>

\* lines 95-136 raise (authenticate or create_event): caught at line 154; the
\* provider may have created the event before the failure
JobCreateRaise(j) ==
    /\ job[j].pc = "create"
    /\ \E applied \in BOOLEAN :
         provider' = IF applied
                       THEN Append(provider, [key |-> job[j].key, at |-> now,
                                              id |-> Len(provider) + 1])
                       ELSE provider
    /\ job' = [job EXCEPT ![j] = [@ EXCEPT !.pc = "done", !.called = TRUE,
                                           !.extra = NoExtra,
                                           !.result = ErrorResult("exception")]]
    /\ UNCHANGED <<now, idem, dbUser, dbProvider, ndeliv, lastOk>>
    /\ UNCHANGED <<rateVars, rlRunVars, dirVars, parseVars, localVars, uiVars>>

\* lines 141-152: the record is written with a one-hour life, the response
\* is returned
JobStore(j) ==
    /\ job[j].pc = "setex"
    /\ LET response == Response(job[j].evt)
           key == job[j].key
       IN /\ idem' = [idem EXCEPT ![key] = [present |-> TRUE,
                                            value |-> JsonDumps(response),
                                            exp |-> now + IdemTTL]]
          /\ job' = [job EXCEPT ![j] = [@ EXCEPT !.pc = "done",
                                                 !.evt = NoEvent,
                                                 !.result = response]]
          /\ lastOk' = [x \in LogicalEvents |->
                          IF x = job[j].le
                            THEN [has |-> TRUE, at |-> now,
                                  stored |-> JsonDumps(response)]
                            ELSE NoLastOk]
    /\ UNCHANGED <<now, provider, dbUser, dbProvider, ndeliv>>
    /\ UNCHANGED <<rateVars, rlRunVars, dirVars, parseVars, localVars, uiVars>>

\* line 146 raises: caught at line 154, the job answers with the error (the
\* event the connector returned stays in the frame); the write may have
\* reached the store before the failure
JobStoreRaise(j) ==
    /\ job[j].pc = "setex"
    /\ \E applied \in BOOLEAN :
         LET key == job[j].key
         IN /\ idem' = IF applied
                         THEN [idem EXCEPT ![key] =
                                 [present |-> TRUE,
                                  value |-> JsonDumps(Response(job[j].evt)),
                                  exp |-> now + IdemTTL]]
                         ELSE idem
            /\ lastOk' = IF applied
                           THEN [x \in LogicalEvents |-> NoLastOk]
                           ELSE lastOk
    /\ job' = [job EXCEPT ![j] = [@ EXCEPT !.pc = "done",
                                           !.result = ErrorResult("exception")]]
    /\ UNCHANGED <<now, provider, dbUser, dbProvider, ndeliv>>
    /\ UNCHANGED <<rateVars, rlRunVars, dirVars, parseVars, localVars, uiVars>>

\* the worker dies or the job times out (job_timeout) while suspended; the
\* queue delivers the job again (retry_jobs)
JobCrash(j) ==
    /\ job[j].pc \in {"db", "create", "setex"}
    /\ job' = [job EXCEPT ![j] = [IdleJob EXCEPT !.pc = "crashed"]]
    /\ UNCHANGED <<now, idem, provider, dbUser, dbProvider, ndeliv, lastOk>>
    /\ UNCHANGED <<rateVars, rlRunVars, dirVars, parseVars, localVars, uiVars>>

\* time passes; records whose life ran out are gone
JobTick ==
    /\ now + JobClockStep <= MaxJobTime
    /\ now' = now + JobClockStep
    /\ idem' = [k \in DOMAIN idem |->
                  IF idem[k].present /\ idem[k].exp <= now + JobClockStep
                    THEN NoRecord ELSE idem[k]]
    /\ UNCHANGED <<job, provider, dbUser, dbProvider, ndeliv, lastOk>>
    /\ UNCHANGED <<rateVars, rlRunVars, dirVars, parseVars, localVars, uiVars>>

(* ------------------------------ AIDirector ----------------------------- *)
GPT_LIMIT_HOUR == 50
GPT_LIMIT_DAY == 200
WHISPER_LIMIT_HOUR == 20
WHISPER_LIMIT_DAY == 100
HourSeconds == 3600
DaySeconds == 86400
MaxDecisions == 2      \* decisions started in one director run

\* a message text, as far as _analyze_complexity reads it: whether one of the
\* simple patterns matches, its length, how many complexity indicators occur
Texts ==
    {[simple_pattern |-> TRUE, length |-> 20, indicators |-> 0],
     [simple_pattern |-> TRUE, length |-> 210, indicators |-> 0],
     [simple_pattern |-> TRUE, length |-> 40, indicators |-> 2],
     [simple_pattern |-> FALSE, length |-> 20, indicators |-> 0],
     [simple_pattern |-> FALSE, length |-> 20, indicators |-> 1],
     [simple_pattern |-> FALSE, length |-> 40, indicators |-> 2],
     [simple_pattern |-> FALSE, length |-> 160, indicators |-> 0]}
NoText == [simple_pattern |-> FALSE, length |-> 0, indicators |-> 0]
AudioSeconds == {30, 130}

\* _analyze_complexity
AnalyzeComplexity(text) ==
    IF text.simple_pattern
      THEN IF text.length > 200 THEN "medium" ELSE "simple"
    ELSE IF text.indicators >= 2 THEN "complex"
    ELSE IF text.indicators = 1 \/ text.length > 150 THEN "medium"
    ELSE "simple"

\* DirectorDecision with its defaults (threshold 0.7, 1000 tokens, no delay)
Decision(mode, reason) ==
    [mode |-> mode, reason |-> reason, confidence_threshold |-> 70,
     max_tokens |-> 1000, temperature |-> 10, delay_seconds |-> 0]
NoDecision == Decision("", "")

\* the rate-limit rule firing only when both quotas are exhausted
DecideParsingBothExhausted(gpt_allowed, gpt_day_allowed, complexity, is_forwarded) ==
    IF ~gpt_allowed /\ ~gpt_day_allowed
      THEN [Decision("LOCAL_ONLY", "Rate limit reached")
              EXCEPT !.confidence_threshold = 50]
    ELSE IF complexity = "simple"
      THEN [Decision("LOCAL_ONLY", "Simple message pattern detected")
              EXCEPT !.confidence_threshold = 60]
    ELSE IF complexity = "medium"
      THEN Decision("LOCAL_WITH_GPT_FALLBACK",
                    "Medium complexity - local with fallback")
    ELSE IF is_forwarded \/ complexity = "complex"
      THEN [Decision("GPT_ONLY", "Complex or forwarded message")
              EXCEPT !.confidence_threshold = 80, !.max_tokens = 1500]
    ELSE Decision("LOCAL_WITH_GPT_FALLBACK", "Default processing mode")

\* the forwarded-or-complex rule tried before the simple and medium rules
DecideParsingForwardedFirst(gpt_allowed, gpt_day_allowed, complexity, is_forwarded) ==
    IF ~gpt_allowed \/ ~gpt_day_allowed
      THEN [Decision("LOCAL_ONLY", "Rate limit reached")
              EXCEPT !.confidence_threshold = 50]
    ELSE IF is_forwarded \/ complexity = "complex"
      THEN [Decision("GPT_ONLY", "Complex or forwarded message")
              EXCEPT !.confidence_threshold = 80, !.max_tokens = 1500]
    ELSE IF complexity = "simple"
      THEN [Decision("LOCAL_ONLY", "Simple message pattern detected")
              EXCEPT !.confidence_threshold = 60]
    ELSE IF complexity = "medium"
      THEN Decision("LOCAL_WITH_GPT_FALLBACK",
                    "Medium complexity - local with fallback")
    ELSE Decision("LOCAL_WITH_GPT_FALLBACK", "Default processing mode")

\* decide_parsing_mode, lines 134-173: the first rule that matches decides
DecideParsing(gpt_allowed, gpt_day_allowed, complexity, is_forwarded) ==
    IF ~gpt_allowed \/ ~gpt_day_allowed
      THEN [Decision("LOCAL_ONLY", "Rate limit reached")
              EXCEPT !.confidence_threshold = 50]
    ELSE IF complexity = "simple"
      THEN [Decision("LOCAL_ONLY", "Simple message pattern detected")
              EXCEPT !.confidence_threshold = 60]
    ELSE IF complexity = "medium"
      THEN Decision("LOCAL_WITH_GPT_FALLBACK",
                    "Medium complexity - local with fallback")
    ELSE IF is_forwarded \/ complexity = "complex"
      THEN [Decision("GPT_ONLY", "Complex or forwarded message")
              EXCEPT !.confidence_threshold = 80, !.max_tokens = 1500]
    ELSE Decision("LOCAL_WITH_GPT_FALLBACK", "Default processing mode")

NoCheck == [asked |-> FALSE, allowed |-> FALSE, remaining |-> 0,
            raised |-> FALSE]

\* the answer of a finished check_rate_limit call
CheckOf(f) == [asked |-> TRUE, allowed |-> f.allowed,
               remaining |-> f.remaining, raised |-> f.raised]

IdleDir ==
    [pc |-> "idle", op |-> "parse", text |-> NoText, forwarded |-> FALSE,
     audio |-> 0, hour |-> NoCheck, day |-> NoCheck, complexity |-> "",
     decision |-> NoDecision, usage |-> "none",
     seen |-> [hour |-> 0, day |-> 0]]

DirFree(p) == dir[p].pc \in {"idle", "done"} /\ rl[p].pc = "idle"

\* decide_parsing_mode, lines 116-123: the hourly check is started
DirParseBegin(p, text, is_voice, is_forwarded) ==
    /\ DirFree(p)
    /\ ndecisions < MaxDecisions
    /\ ndecisions' = ndecisions + 1
    /\ is_voice \in BOOLEAN
    /\ dir' = [dir EXCEPT ![p] =
                 [IdleDir EXCEPT !.pc = "hour", !.text = text,
                                 !.forwarded = is_forwarded,
                                 !.seen = [hour |-> counter[GptHourKey].val,
                                           day |-> counter[GptDayKey].val]]]
    /\ RateCall(p, GptHourKey, GPT_LIMIT_HOUR, HourSeconds)
    /\ UNCHANGED <<now, counter, hist, allowedAt, obs>>
    /\ UNCHANGED <<rlRunVars, jobVars, parseVars, localVars, uiVars>>

\* the daily check made only when the hourly one allowed the call
DirParseHourShortCut(p) ==
    /\ dir[p].pc = "hour" /\ dir[p].op = "parse"
    /\ rl[p].pc = "ret"
    /\ IF ~rl[p].allowed
         THEN /\ dir' = [dir EXCEPT ![p] =
                           [@ EXCEPT !.pc = "done", !.hour = CheckOf(rl[p]),
                                     !.decision =
                                        DecideParsing(FALSE, TRUE, "simple",
                                                      FALSE)]]
              /\ rl' = [rl EXCEPT ![p] = IdleFrame]
         ELSE /\ dir' = [dir EXCEPT ![p] = [@ EXCEPT !.pc = "day",
                                                     !.hour = CheckOf(rl[p])]]
              /\ RateCall(p, GptDayKey, GPT_LIMIT_DAY, DaySeconds)
    /\ UNCHANGED <<now, counter, hist, allowedAt, obs, ndecisions>>
    /\ UNCHANGED <<rlRunVars, jobVars, parseVars, localVars, uiVars>>

\* lines 119-129: the hourly answer is taken, the daily check is started
DirParseHour(p) ==
    /\ dir[p].pc = "hour" /\ dir[p].op = "parse"
    /\ rl[p].pc = "ret"
    /\ dir' = [dir EXCEPT ![p] = [@ EXCEPT !.pc = "day",
                                           !.hour = CheckOf(rl[p])]]
    /\ RateCall(p, GptDayKey, GPT_LIMIT_DAY, DaySeconds)
    /\ UNCHANGED <<now, counter, hist, allowedAt, obs, ndecisions>>
    /\ UNCHANGED <<rlRunVars, jobVars, parseVars, localVars, uiVars>>

\* lines 125-173: the daily answer is taken, the complexity is computed and
\* the decision is returned
DirParseDay(p) ==
    /\ dir[p].pc = "day" /\ dir[p].op = "parse"
    /\ rl[p].pc = "ret"
    /\ LET day == CheckOf(rl[p])
           complexity == AnalyzeComplexity(dir[p].text)
       IN dir' = [dir EXCEPT ![p] =
                    [@ EXCEPT !.pc = "done", !.day = day,
                              !.complexity = complexity,
                              !.decision = DecideParsing(dir[p].hour.allowed,
                                                         day.allowed, complexity,
                                                         dir[p].forwarded)]]
    /\ rl' = [rl EXCEPT ![p] = IdleFrame]
    /\ UNCHANGED <<now, counter, hist, allowedAt, obs, ndecisions>>
    /\ UNCHANGED <<rlRunVars, jobVars, parseVars, localVars, uiVars>>

\* decide_transcription_mode, lines 190-197: the hourly check is started
DirTransBegin(p, audio_duration_seconds) ==
    /\ DirFree(p)
    /\ ndecisions < MaxDecisions
    /\ ndecisions' = ndecisions + 1
    /\ audio_duration_seconds \in AudioSeconds
    /\ dir' = [dir EXCEPT ![p] = [IdleDir EXCEPT !.pc = "hour",
                                     !.op = "transcribe",
                                     !.audio = audio_duration_seconds]]
    /\ RateCall(p, WhisperHourKey, WHISPER_LIMIT_HOUR, HourSeconds)
    /\ UNCHANGED <<now, counter, hist, allowedAt, obs>>
    /\ UNCHANGED <<rlRunVars, jobVars, parseVars, localVars, uiVars>>

\* lines 193-212: hourly quota exhausted queues for a minute; otherwise the
\* daily check is started
DirTransHour(p) ==
    /\ dir[p].pc = "hour" /\ dir[p].op = "transcribe"
    /\ rl[p].pc = "ret"
    /\ IF ~rl[p].allowed
         THEN /\ dir' = [dir EXCEPT ![p] =
                           [@ EXCEPT !.pc = "done", !.hour = CheckOf(rl[p]),
                                     !.decision =
                                        [Decision("QUEUE_FOR_LATER",
                                                  "Whisper rate limit reached")
                                           EXCEPT !.delay_seconds = 60]]]
              /\ rl' = [rl EXCEPT ![p] = IdleFrame]
         ELSE /\ dir' = [dir EXCEPT ![p] = [@ EXCEPT !.pc = "day",
                                                     !.hour = CheckOf(rl[p])]]
              /\ RateCall(p, WhisperDayKey, WHISPER_LIMIT_DAY, DaySeconds)
    /\ UNCHANGED <<now, counter, hist, allowedAt, obs, ndecisions>>
    /\ UNCHANGED <<rlRunVars, jobVars, parseVars, localVars, uiVars>>

\* the daily refusal queued for a minute, like the hourly one
DirTransDayMinute(p) ==
    /\ dir[p].pc = "day" /\ dir[p].op = "transcribe"
    /\ rl[p].pc = "ret"
    /\ dir' = [dir EXCEPT ![p] =
                 [@ EXCEPT !.pc = "done", !.day = CheckOf(rl[p]),
                           !.decision =
                              IF ~rl[p].allowed
                                THEN [Decision("QUEUE_FOR_LATER",
                                               "Daily Whisper limit reached")
                                        EXCEPT !.delay_seconds = 60]
                                ELSE Decision("GPT_ONLY",
                                              "Transcription allowed")]]
    /\ rl' = [rl EXCEPT ![p] = IdleFrame]
    /\ UNCHANGED <<now, counter, hist, allowedAt, obs, ndecisions>>
    /\ UNCHANGED <<rlRunVars, jobVars, parseVars, localVars, uiVars>>

\* lines 208-228: daily quota exhausted queues for an hour; otherwise the
\* transcription is allowed
DirTransDay(p) ==
    /\ dir[p].pc = "day" /\ dir[p].op = "transcribe"
    /\ rl[p].pc = "ret"
    /\ dir' = [dir EXCEPT ![p] =
                 [@ EXCEPT !.pc = "done", !.day = CheckOf(rl[p]),
                           !.decision =
                              IF ~rl[p].allowed
                                THEN [Decision("QUEUE_FOR_LATER",
                                               "Daily Whisper limit reached")
                                        EXCEPT !.delay_seconds = 3600]
                                ELSE Decision("GPT_ONLY",
                                              "Transcription allowed")]]
    /\ rl' = [rl EXCEPT ![p] = IdleFrame]
    /\ UNCHANGED <<now, counter, hist, allowedAt, obs, ndecisions>>
    /\ UNCHANGED <<rlRunVars, jobVars, parseVars, localVars, uiVars>>

\* record_usage, lines 278-294: the hourly counter of the usage type is
\* incremented by a check that cannot refuse
DirRecordBegin(p, usage_type) ==
    /\ DirFree(p)
    /\ ndecisions < MaxDecisions
    /\ ndecisions' = ndecisions + 1
    /\ LET hourKey == IF usage_type = "gpt" THEN GptHourKey
                      ELSE WhisperHourKey
           dayKey == IF usage_type = "gpt" THEN GptDayKey ELSE WhisperDayKey
       IN  /\ dir' = [dir EXCEPT ![p] =
                        [IdleDir EXCEPT !.pc = "hour", !.op = "record",
                                        !.usage = usage_type,
                                        !.seen = [hour |-> counter[hourKey].val,
                                                  day |-> counter[dayKey].val]]]
           /\ RateCall(p, hourKey, 999999, HourSeconds)
    /\ UNCHANGED <<now, counter, hist, allowedAt, obs>>
    /\ UNCHANGED <<rlRunVars, jobVars, parseVars, localVars, uiVars>>

\* lines 296-305: the daily counter is incremented the same way, then
\* record_usage returns
DirRecordStep(p) ==
    /\ dir[p].op = "record"
    /\ rl[p].pc = "ret"
    /\ IF dir[p].pc = "hour"
         THEN /\ dir' = [dir EXCEPT ![p] = [@ EXCEPT !.pc = "day",
                                                     !.hour = CheckOf(rl[p])]]
              /\ RateCall(p, IF dir[p].usage = "gpt" THEN GptDayKey
                                ELSE WhisperDayKey,
                          999999, DaySeconds)
         ELSE /\ dir[p].pc = "day"
              /\ dir' = [dir EXCEPT ![p] = [@ EXCEPT !.pc = "done",
                                                     !.day = CheckOf(rl[p])]]
              /\ rl' = [rl EXCEPT ![p] = IdleFrame]
    /\ UNCHANGED <<now, counter, hist, allowedAt, obs, ndecisions>>
    /\ UNCHANGED <<rlRunVars, jobVars, parseVars, localVars, uiVars>>

(* ----------------- /parse, parse_message_gpt, parse_message ------------- *)
JobGptLimit == 50      \* max_requests of the parse_message_gpt job
JobGptWindow == 3600   \* window_seconds of the parse_message_gpt job
MaxParses == 3         \* parsing requests started in one run

\* a JSON value of a field: a number, a string that is no number, null, or
\* the field is missing
Num(n) == [t |-> "num", v |-> n]
Str == [t |-> "str", v |-> 0]
Null == [t |-> "null", v |-> 0]
Missing == [t |-> "absent", v |-> 0]

\* what the text holds between the fence markers (or alone): a JSON object
\* with the fields the code reads, another JSON value, or no JSON at all
\* start_datetime is "absent", "null", "iso" (an ISO 8601 string) or
\* "not_iso"; clarification_needed is "absent", "null" or "text"
Obj(content_type, confidence, duration_minutes) ==
    [kind |-> "object", content_type |-> content_type,
     confidence |-> confidence, duration_minutes |-> duration_minutes,
     start_datetime |-> "absent", clarification_needed |-> "absent"]
Other(kind) ==
    [kind |-> kind, content_type |-> "<absent>", confidence |-> Missing,
     duration_minutes |-> Missing,
     start_datetime |-> "absent", clarification_needed |-> "absent"]

\* the object with its start_datetime and clarification_needed fields
ObjAt(obj, start_datetime, clarification_needed) ==
    [obj EXCEPT !.start_datetime = start_datetime,
                !.clarification_needed = clarification_needed]

\* the response text: the body alone ("bare"), between ``` markers
\* ("fenced"), between ```json and ``` ("fenced_json"), or a sentence
\* followed by a fenced body ("prose_then_fenced")
Text(shape, body) == [shape |-> shape, body |-> body]

\* what the completion endpoint can send back (confidence in hundredths)
Replies ==
    {Text("bare", ObjAt(Obj("event", Num(90), Num(60)), "iso", "null")),
     Text("bare", ObjAt(Obj("event", Num(60), Num(60)), "null", "text")),
     Text("bare", ObjAt(Obj("event", Num(70), Num(60)), "null", "null")),
     Text("bare", ObjAt(Obj("event", Num(70), Num(60)), "not_iso", "absent")),
     Text("bare", Obj("note", Num(80), Missing)),
     Text("fenced_json", Obj("unclear", Num(30), Num(60))),
     Text("fenced", Obj("<absent>", Missing, Missing)),
     Text("prose_then_fenced", Obj("event", Num(90), Num(60))),
     Text("bare", Other("garbage")),
     Text("fenced", Other("empty")),
     Text("bare", Other("array")),
     Text("fenced_json", Other("scalar")),
     Text("bare", Obj("task", Num(90), Num(60))),
     Text("bare", Obj("event", Num(150), Num(60))),
     Text("bare", Obj("event", Str, Num(60))),
     Text("bare", Obj("note", Num(80), Null))}
NoReply == Text("none", Other("empty"))

NoParsed == [status |-> "", content_type |-> "", confidence |-> 0,
             has_start |-> FALSE, clarification |-> FALSE, error |-> ""]

\* _parse_datetime: a string that fromisoformat reads gives a datetime,
\* everything else None
parse_datetime(value) == value = "iso"

\* lines 133-140: a text that starts with ``` is cut down to what stands
\* between the first two markers, a leading "json" is dropped; any other text
\* is left as it is, so a sentence before the fence stays in it
StripFences(reply) ==
    IF reply.shape = "prose_then_fenced" THEN Other("garbage") ELSE reply.body

\* json.loads succeeds
Decodable(body) == body.kind \in {"object", "array", "scalar"}

\* float(x) and int(x) raise on a string that is no number and on None
Converts(value) == value.t \in {"num", "absent"}

ValueOr(value, default) == IF value.t = "absent" THEN default ELSE value.v

ContentTypes == {"event", "note", "reminder", "unclear"}

\* lines 146-158 and ParsedContentResponse: the fields are read with .get
\* (only an object has it), converted, and validated by the response model;
\* "raised" stands for the exception that leaves parse_message
FromData(data) ==
    LET content_type == IF data.content_type = "<absent>" THEN "unclear"
                                                        ELSE data.content_type
        confidence == ValueOr(data.confidence, 50)
    IN IF /\ data.kind = "object"
          /\ Converts(data.confidence) /\ Converts(data.duration_minutes)
          /\ content_type \in ContentTypes
          /\ confidence >= 0 /\ confidence <= 100
         THEN [NoParsed EXCEPT !.status = "ok",
                               !.content_type = content_type,
                               !.confidence = confidence,
                               !.has_start =
                                  parse_datetime(data.start_datetime),
                               !.clarification =
                                  (data.clarification_needed = "text")]
         ELSE [NoParsed EXCEPT !.status = "raised"]

\* JSONDecodeError handled like every other exception
ParsedFromDecodeRaises(reply) ==
    FromData(StripFences(reply))

\* parse_message, lines 133-169: code fences are stripped, the text is decoded
\* as JSON; a text that does not decode gives unclear with confidence 0.0
ParsedFrom(reply) ==
    IF Decodable(StripFences(reply))
      THEN FromData(StripFences(reply))
      ELSE [NoParsed EXCEPT !.status = "ok", !.content_type = "unclear",
                            !.confidence = 0, !.clarification = TRUE]

\* no path of the repository asks the AIDirector or the local classifier
\* before it parses: decision and local stay as they are here
IdlePar ==
    [pc |-> "idle", path |-> "endpoint", decision |-> NoDecision,
     local |-> [ran |-> FALSE, confidence |-> 0], llmCalled |-> FALSE,
     reply |-> NoReply, pm |-> "", result |-> NoParsed, check |-> NoCheck]

ParFree(p) == par[p].pc \in {"idle", "done", "raised"} /\ rl[p].pc = "idle"

\* POST /parse, parse_user_message: parse_message is awaited at once
EndpointParse(p) ==
    /\ ParFree(p)
    /\ nparse < MaxParses
    /\ nparse' = nparse + 1
    /\ par' = [par EXCEPT ![p] = [IdlePar EXCEPT !.pc = "llm"]]
    /\ UNCHANGED <<now, rateVars, rlRunVars, jobVars, dirVars, localVars, uiVars>>

\* parse_message_gpt, lines 230-240: with a user_id the counter gpt:<user> is
\* checked first
JobParseBegin(p, has_user) ==
    /\ ParFree(p)
    /\ nparse < MaxParses
    /\ nparse' = nparse + 1
    /\ IF has_user
         THEN /\ par' = [par EXCEPT ![p] = [IdlePar EXCEPT !.pc = "rate",
                                                          !.path = "job"]]
              /\ RateCall(p, GptJobKey, JobGptLimit, JobGptWindow)
         ELSE /\ par' = [par EXCEPT ![p] = [IdlePar EXCEPT !.pc = "llm",
                                                          !.path = "job"]]
              /\ rl' = rl
    /\ UNCHANGED <<now, counter, hist, allowedAt, obs>>
    /\ UNCHANGED <<rlRunVars, jobVars, dirVars, localVars, uiVars>>

\* the answer of the check not looked at
JobParseRateIgnored(p) ==
    /\ par[p].pc = "rate"
    /\ rl[p].pc = "ret"
    /\ par' = [par EXCEPT ![p] = [@ EXCEPT !.pc = "llm",
                                           !.check = CheckOf(rl[p])]]
    /\ rl' = [rl EXCEPT ![p] = IdleFrame]
    /\ UNCHANGED <<now, counter, hist, allowedAt, obs, nparse>>
    /\ UNCHANGED <<rlRunVars, jobVars, dirVars, localVars, uiVars>>

\* lines 242-255: a refused check ends the job, otherwise parse_message is
\* awaited
JobParseRate(p) ==
    /\ par[p].pc = "rate"
    /\ rl[p].pc = "ret"
    /\ par' = [par EXCEPT ![p] =
                 IF ~rl[p].allowed
                   THEN [@ EXCEPT !.pc = "done", !.check = CheckOf(rl[p]),
                                  !.result = [NoParsed EXCEPT
                                                !.status = "error",
                                                !.content_type = "unclear",
                                                !.error = "Rate limit exceeded"]]
                   ELSE [@ EXCEPT !.pc = "llm", !.check = CheckOf(rl[p])]]
    /\ rl' = [rl EXCEPT ![p] = IdleFrame]
    /\ UNCHANGED <<now, counter, hist, allowedAt, obs, nparse>>
    /\ UNCHANGED <<rlRunVars, jobVars, dirVars, localVars, uiVars>>

\* the caller of parse_message when an exception leaves it: /parse lets it
\* through, the job answers with the error (lines 271-277)
Raised(f, how) ==
    IF f.path = "endpoint"
      THEN [f EXCEPT !.pc = "raised", !.llmCalled = TRUE, !.pm = how]
      ELSE [f EXCEPT !.pc = "done", !.llmCalled = TRUE, !.pm = how,
                     !.result = [NoParsed EXCEPT !.status = "error",
                                                 !.content_type = "unclear",
                                                 !.error = "exception"]]

\* parse_message, lines 122-169: the completion call answers with a text
LlmReply(p, reply) ==
    /\ par[p].pc = "llm"
    /\ LET f == [par[p] EXCEPT !.reply = reply]
       IN par' = [par EXCEPT ![p] =
                    IF ParsedFrom(reply).status = "raised"
                      THEN Raised(f, "raised_on_reply")
                      ELSE [f EXCEPT !.pc = "done", !.llmCalled = TRUE,
                                     !.pm = "returned",
                                     !.result = ParsedFrom(reply)]]
    /\ UNCHANGED <<now, rateVars, rlRunVars, jobVars, dirVars, nparse, localVars, uiVars>>

\* parse_message, lines 167-169: the completion call itself raises (network,
\* authentication)
LlmRaise(p) ==
    /\ par[p].pc = "llm"
    /\ par' = [par EXCEPT ![p] = Raised(par[p], "raised_on_call")]
    /\ UNCHANGED <<now, rateVars, rlRunVars, jobVars, dirVars, nparse, localVars, uiVars>>

(* ------------------- date_parser: the local classifier ----------------- *)
MaxNoteScore == 5      \* note keywords found in one text
MaxEventScore == 2     \* event keywords found in one text

\* confidences are counted in hundredths
SecondsOfDay == 86400

\* instants are seconds since the midnight that opens the day of the call
Instant(day, hour, minute, second) ==
    day * SecondsOfDay + hour * 3600 + minute * 60 + second

\* the time expression of a text, as extract_time_from_text reads it: the
\* first TIME_PATTERNS entry found in it ("none" when there is none), the
\* one- or two-digit number after the preposition with its optional two-digit
\* minutes, and whether the text speaks of the evening or the night
TimeExpr(named, has_digits, hour, has_minute, minute, evening) ==
    [named |-> named, has_digits |-> has_digits, hour |-> hour,
     has_minute |-> has_minute, minute |-> minute, evening |-> evening]
NoTimeExpr == TimeExpr("none", FALSE, 0, FALSE, 0, FALSE)
TimeExprs ==
    {NoTimeExpr,
     TimeExpr("utrom", FALSE, 0, FALSE, 0, FALSE),
     TimeExpr("vecherom", TRUE, 7, FALSE, 0, TRUE),
     TimeExpr("none", TRUE, 15, TRUE, 0, FALSE),
     TimeExpr("none", TRUE, 3, FALSE, 0, FALSE),
     TimeExpr("none", TRUE, 7, TRUE, 30, TRUE),
     TimeExpr("none", TRUE, 23, TRUE, 45, FALSE),
     TimeExpr("none", TRUE, 30, FALSE, 0, FALSE),
     TimeExpr("none", TRUE, 15, TRUE, 75, FALSE)}

\* TIME_PATTERNS
NamedTime(named) ==
    IF named = "utrom" THEN [hour |-> 10, minute |-> 0]
    ELSE IF named = "s_utra" THEN [hour |-> 9, minute |-> 0]
    ELSE IF named = "dnem" THEN [hour |-> 14, minute |-> 0]
    ELSE IF named = "posle_obeda" THEN [hour |-> 14, minute |-> 0]
    ELSE IF named = "vecherom" THEN [hour |-> 19, minute |-> 0]
    ELSE IF named = "nochyu" THEN [hour |-> 23, minute |-> 0]
    ELSE [hour |-> 13, minute |-> 0]

NoTime == [found |-> FALSE, hour |-> 0, minute |-> 0]

\* extract_time_from_text: a named time wins; otherwise the number after the
\* preposition, an hour below 8 read as afternoon unless the text speaks of
\* the evening or the night
extract_time_from_text(e) ==
    IF e.named # "none"
      THEN [found |-> TRUE, hour |-> NamedTime(e.named).hour,
            minute |-> NamedTime(e.named).minute]
    ELSE IF e.has_digits
      THEN [found |-> TRUE,
            hour |-> IF e.hour < 8 /\ ~e.evening THEN e.hour + 12 ELSE e.hour,
            minute |-> IF e.has_minute THEN e.minute ELSE 0]
    ELSE NoTime

\* the duration expression of a text, as extract_duration reads it
DurationExprs ==
    {[kind |-> "none", n |-> 0], [kind |-> "hours", n |-> 2],
     [kind |-> "polchasa", n |-> 0]}

\* extract_duration, DURATION_PATTERNS
extract_duration(d) ==
    IF d.kind = "hours" THEN d.n * 60
    ELSE IF d.kind = "minutes" THEN d.n
    ELSE IF d.kind = "polchasa" THEN 30
    ELSE IF d.kind = "poltora" THEN 90
    ELSE 60

\* what dateparser.parse answers for a text (line 266): nothing, or a date
NoDate == [found |-> FALSE, day |-> 0, hour |-> 0, minute |-> 0]
ParsedDates ==
    {NoDate,
     [found |-> TRUE, day |-> 1, hour |-> 0, minute |-> 0],
     [found |-> TRUE, day |-> 2, hour |-> 11, minute |-> 30]}

\* a text, as the local classifier reads it: the number of note and event
\* keywords in it, the answers of the two dateparser calls (strict at line
\* 186, lenient at line 266), its time expression, whether the clock pattern
\* of line 194 matches, its duration expression
LocalTexts ==
    [note_score : 0..MaxNoteScore, event_score : 0..MaxEventScore,
     strict_date : BOOLEAN, parsed : ParsedDates, time : TimeExprs,
     clock_pattern : BOOLEAN, duration : DurationExprs]

\* datetime.now(tz) of the call, on day 0
Clocks ==
    {[hour |-> 9, minute |-> 0, second |-> 0],
     [hour |-> 15, minute |-> 0, second |-> 0],
     [hour |-> 15, minute |-> 0, second |-> 30],
     [hour |-> 23, minute |-> 50, second |-> 10]}

ClockInstant(c) == Instant(0, c.hour, c.minute, c.second)

Min(a, b) == IF a < b THEN a ELSE b
Max(a, b) == IF a > b THEN a ELSE b

\* line 193: an explicit time was extracted, or the clock pattern matches
HasTime(text) == extract_time_from_text(text.time).found \/ text.clock_pattern

\* the event confidence without its cap of 0.95
detect_content_type_uncapped(text) ==
    IF text.note_score > 0 /\ text.event_score = 0 /\ ~HasTime(text)
      THEN [content_type |-> "note", confidence |-> 80 + text.note_score * 5]
    ELSE IF text.event_score > 0 \/ HasTime(text)
      THEN [content_type |-> "event",
            confidence |-> 60 + text.event_score * 10
                               + (IF text.strict_date THEN 10 ELSE 0)
                               + (IF HasTime(text) THEN 10 ELSE 0)]
    ELSE IF text.strict_date
      THEN [content_type |-> "event", confidence |-> 50]
    ELSE [content_type |-> "unclear", confidence |-> 30]

\* detect_content_type, lines 177-211
detect_content_type(text) ==
    IF text.note_score > 0 /\ text.event_score = 0 /\ ~HasTime(text)
      THEN [content_type |-> "note", confidence |-> 80 + text.note_score * 5]
    ELSE IF text.event_score > 0 \/ HasTime(text)
      THEN [content_type |-> "event",
            confidence |-> Min(60 + text.event_score * 10
                                  + (IF text.strict_date THEN 10 ELSE 0)
                                  + (IF HasTime(text) THEN 10 ELSE 0), 95)]
    ELSE IF text.strict_date
      THEN [content_type |-> "event", confidence |-> 50]
    ELSE [content_type |-> "unclear", confidence |-> 30]

\* datetime.replace(hour=, minute=) raises ValueError outside 0..23, 0..59
ValidTime(t) == t.hour \in 0..23 /\ t.minute \in 0..59

\* today's instant kept unless it lies strictly before now
TodayOrTomorrowStrict(today_at, now_at) ==
    IF today_at < now_at THEN today_at + SecondsOfDay ELSE today_at

\* lines 298-304: today at the time; if that has passed, tomorrow
TodayOrTomorrow(today_at, now_at) ==
    IF today_at <= now_at THEN today_at + SecondsOfDay ELSE today_at

\* DateParseResult with its defaults, as built at line 243
NoLocalResult ==
    [success |-> FALSE, has_start |-> FALSE, start_datetime |-> 0,
     has_end |-> FALSE, end_datetime |-> 0, duration_minutes |-> 60,
     is_note |-> FALSE, is_event |-> FALSE, confidence |-> 0,
     needs_gpt |-> FALSE]

NoLocalText ==
    [note_score |-> 0, event_score |-> 0, strict_date |-> FALSE,
     parsed |-> NoDate, time |-> NoTimeExpr, clock_pattern |-> FALSE,
     duration |-> [kind |-> "none", n |-> 0]]

IdleLoc ==
    [pc |-> "idle", text |-> NoLocalText,
     clock |-> [hour |-> 0, minute |-> 0, second |-> 0],
     detected |-> [content_type |-> "", confidence |-> 0],
     result |-> NoLocalResult]

\* the result with its start, duration and end set (lines 284-291, 306-311)
WithStart(r, start, text) ==
    [r EXCEPT !.has_start = TRUE, !.start_datetime = start,
              !.duration_minutes = extract_duration(text.duration),
              !.has_end = TRUE,
              !.end_datetime = start + extract_duration(text.duration) * 60,
              !.success = TRUE]

\* parse_date_local, lines 230-247: the content type is detected and the
\* result is built
LocalBegin(text, clock) ==
    /\ loc.pc = "idle"
    /\ LET d == detect_content_type(text)
       IN loc' = [IdleLoc EXCEPT
                    !.pc = "typed", !.text = text, !.clock = clock,
                    !.detected = d,
                    !.result = [NoLocalResult EXCEPT
                                  !.is_note = (d.content_type = "note"),
                                  !.is_event = (d.content_type = "event"),
                                  !.confidence = d.confidence]]
    /\ UNCHANGED <<now, rateVars, rlRunVars, jobVars, dirVars, parseVars, uiVars>>

\* lines 250-256: a note is returned without date parsing
LocalNote ==
    /\ loc.pc = "typed" /\ loc.detected.content_type = "note"
    /\ loc' = [loc EXCEPT !.pc = "done", !.result.success = TRUE]
    /\ UNCHANGED <<now, rateVars, rlRunVars, jobVars, dirVars, parseVars, uiVars>>

\* lines 258-312: the date is parsed; with a date, an explicit time replaces
\* a midnight; without a date an explicit time is anchored to today or
\* tomorrow; replace() raises on an hour or a minute out of range
LocalDates ==
    /\ loc.pc = "typed" /\ loc.detected.content_type # "note"
    /\ LET text == loc.text
           parsed_date == text.parsed
           explicit_time == extract_time_from_text(text.time)
           now_at == ClockInstant(loc.clock)
       IN loc' =
            IF parsed_date.found
              THEN IF explicit_time.found /\ parsed_date.hour = 0
                        /\ parsed_date.minute = 0
                     THEN IF ValidTime(explicit_time)
                            THEN [loc EXCEPT
                                    !.pc = "dated",
                                    !.result =
                                       [WithStart(loc.result,
                                                  Instant(parsed_date.day,
                                                          explicit_time.hour,
                                                          explicit_time.minute, 0),
                                                  text)
                                          EXCEPT !.confidence =
                                                    Max(loc.result.confidence, 70)]]
                            ELSE [loc EXCEPT !.pc = "raised"]
                     ELSE [loc EXCEPT
                             !.pc = "dated",
                             !.result =
                                [WithStart(loc.result,
                                           Instant(parsed_date.day,
                                                   parsed_date.hour,
                                                   parsed_date.minute, 0),
                                           text)
                                   EXCEPT !.confidence =
                                             Max(loc.result.confidence, 70)]]
            ELSE IF explicit_time.found
              THEN IF ValidTime(explicit_time)
                     THEN [loc EXCEPT
                             !.pc = "dated",
                             !.result =
                                [WithStart(loc.result,
                                           TodayOrTomorrow(
                                              Instant(0, explicit_time.hour,
                                                      explicit_time.minute, 0),
                                              now_at),
                                           text)
                                   EXCEPT !.confidence = 60]]
                     ELSE [loc EXCEPT !.pc = "raised"]
            ELSE [loc EXCEPT !.pc = "dated"]
    /\ UNCHANGED <<now, rateVars, rlRunVars, jobVars, dirVars, parseVars, uiVars>>

\* lines 314-327: an event without a date needs the LLM, and so does every
\* unsuccessful result of low confidence
LocalFinish ==
    /\ loc.pc = "dated"
    /\ LET r == loc.result
           r1 == IF ~r.success /\ loc.detected.content_type = "event"
                   THEN [r EXCEPT !.needs_gpt = TRUE, !.confidence = 30]
                   ELSE r
           r2 == IF r1.confidence < 50 /\ ~r1.success
                   THEN [r1 EXCEPT !.needs_gpt = TRUE]
                   ELSE r1
       IN loc' = [loc EXCEPT !.pc = "done", !.result = r2]
    /\ UNCHANGED <<now, rateVars, rlRunVars, jobVars, dirVars, parseVars, uiVars>>

(* ------------------ pending events of the Telegram bot ------------------ *)
\* bot/handlers/messages.py and bot/handlers/edit.py: a parsed event waits
\* in the store under pending:event:<id> until a callback of its keyboard
\* confirms or cancels it.  Times are minutes on one time line.
MaxCallbacks == 3

BotTasks == {"b1", "b2"}
PendingIds == {"e1"}

NoPending ==
    [present |-> FALSE, has_start |-> FALSE, start_datetime |-> 0,
     has_end |-> FALSE, end_datetime |-> 0, duration_minutes |-> 60,
     add_conference |-> "none"]

\* the events /telegram/parse answers: the reply's own start_datetime,
\* end_datetime (or none) and duration_minutes, none of them derived from
\* the others by the code
ParsedEvents ==
    {[NoPending EXCEPT !.present = TRUE, !.has_start = TRUE,
                       !.start_datetime = 600, !.has_end = e,
                       !.end_datetime = IF e THEN 600 + d ELSE 0,
                       !.duration_minutes = d] :
        e \in BOOLEAN, d \in {30, 60}}

save_pending_event(store, id, data) ==
    [store EXCEPT ![id] = [data EXCEPT !.present = TRUE]]

delete_pending_event(store, id) == [store EXCEPT ![id] = NoPending]

IdleCb ==
    [pc |-> "idle", op |-> "none", id |-> "none", data |-> NoPending,
     edited |-> 0, outcome |-> "none"]

CbDone(f, outcome) ==
    [IdleCb EXCEPT !.pc = "done", !.op = f.op, !.id = f.id,
                   !.outcome = outcome]

\* handle_text for a message parsed as an event: the event is saved under
\* the message's id and the keyboard is shown
HandleText(id, result) ==
    /\ ~shown[id]
    /\ pending' = save_pending_event(pending, id, result)
    /\ shown' = [shown EXCEPT ![id] = TRUE]
    /\ UNCHANGED <<cb, reports, ncb>>
    /\ UNCHANGED <<now, rateVars, rlRunVars, coreVars, oauthVars, mwVars>>

\* confirm_event, add_google_meet, add_zoom up to their first await: the
\* record is read, and a missing one is answered "Событие устарело"
CreateGet(p, op, id) ==
    /\ cb[p].pc \in {"idle", "done"}
    /\ shown[id]
    /\ ncb < MaxCallbacks
    /\ ncb' = ncb + 1
    /\ LET event_data == pending[id]
           f == [IdleCb EXCEPT !.op = op, !.id = id]
       IN  IF ~event_data.present
           THEN /\ cb' = [cb EXCEPT ![p] = CbDone(f, "expired")]
                /\ reports' = [reports EXCEPT ![id].expired = @ + 1]
           ELSE /\ cb' = [cb EXCEPT ![p] =
                            [f EXCEPT !.pc = IF op = "confirm" THEN "report"
                                             ELSE "save",
                                      !.data = event_data]]
                /\ UNCHANGED reports
    /\ UNCHANGED <<pending, shown>>
    /\ UNCHANGED <<now, rateVars, rlRunVars, coreVars, oauthVars, mwVars>>

\* add_google_meet and add_zoom: the record read is saved again with the
\* conference request
CreateSave(p) ==
    /\ cb[p].pc = "save"
    /\ LET event_data ==
               [cb[p].data EXCEPT !.add_conference =
                                      IF cb[p].op = "meet" THEN "google_meet"
                                      ELSE "zoom"]
       IN  /\ pending' = save_pending_event(pending, cb[p].id, event_data)
           /\ cb' = [cb EXCEPT ![p] = [@ EXCEPT !.pc = "report",
                                                !.data = event_data]]
    /\ UNCHANGED <<shown, reports, ncb>>
    /\ UNCHANGED <<now, rateVars, rlRunVars, coreVars, oauthVars, mwVars>>

\* the message is edited to "Событие создано!"
CreateReport(p) ==
    /\ cb[p].pc = "report"
    /\ reports' = [reports EXCEPT ![cb[p].id].created = @ + 1]
    /\ cb' = [cb EXCEPT ![p] = [@ EXCEPT !.pc = "delete"]]
    /\ UNCHANGED <<pending, shown, ncb>>
    /\ UNCHANGED <<now, rateVars, rlRunVars, coreVars, oauthVars, mwVars>>

CreateDelete(p) ==
    /\ cb[p].pc = "delete"
    /\ pending' = delete_pending_event(pending, cb[p].id)
    /\ cb' = [cb EXCEPT ![p] = CbDone(@, "created")]
    /\ UNCHANGED <<shown, reports, ncb>>
    /\ UNCHANGED <<now, rateVars, rlRunVars, coreVars, oauthVars, mwVars>>

\* cancel_event deletes the record without reading it
CancelEvent(p, id) ==
    /\ cb[p].pc \in {"idle", "done"}
    /\ shown[id]
    /\ ncb < MaxCallbacks
    /\ ncb' = ncb + 1
    /\ pending' = delete_pending_event(pending, id)
    /\ cb' = [cb EXCEPT ![p] =
                 CbDone([IdleCb EXCEPT !.op = "cancel", !.id = id],
                        "cancelled")]
    /\ UNCHANGED <<shown, reports>>
    /\ UNCHANGED <<now, rateVars, rlRunVars, coreVars, oauthVars, mwVars>>

\* edit_time_finish up to its save: the record is read (a missing one is
\* answered "Событие устарело") and the text is parsed by dateparser, which
\* finds a time in it or not
EditTimeGet(p, id, has_parsed, parsed_dt) ==
    /\ cb[p].pc \in {"idle", "done"}
    /\ shown[id]
    /\ ncb < MaxCallbacks
    /\ ncb' = ncb + 1
    /\ LET event_data == pending[id]
           f == [IdleCb EXCEPT !.op = "edit_time", !.id = id]
       IN  IF ~event_data.present
           THEN cb' = [cb EXCEPT ![p] = CbDone(f, "expired")]
           ELSE IF ~has_parsed
           THEN cb' = [cb EXCEPT ![p] = CbDone(f, "not_recognised")]
           ELSE cb' = [cb EXCEPT ![p] =
                          [f EXCEPT !.pc = "edit_save", !.data = event_data,
                                    !.edited = parsed_dt]]
    /\ UNCHANGED <<pending, shown, reports>>
    /\ UNCHANGED <<now, rateVars, rlRunVars, coreVars, oauthVars, mwVars>>

\* end_dt = parsed_dt + timedelta(hours=1); duration_minutes is left alone
EditTimeSave(p) ==
    /\ cb[p].pc = "edit_save"
    /\ LET event_data ==
               [cb[p].data EXCEPT !.has_start = TRUE,
                                  !.start_datetime = cb[p].edited,
                                  !.has_end = TRUE,
                                  !.end_datetime = cb[p].edited + 60]
       IN  /\ pending' = save_pending_event(pending, cb[p].id, event_data)
           /\ cb' = [cb EXCEPT ![p] = CbDone(@, "edited")]
    /\ UNCHANGED <<shown, reports, ncb>>
    /\ UNCHANGED <<now, rateVars, rlRunVars, coreVars, oauthVars, mwVars>>

(* ----------------------------- OAuth state ------------------------------ *)
\* api/utils/oauth_state.py: a state token is stored under
\* oauth:state:<token> with the provider's name as its value
MaxConsumes == 3

OAuthTasks == {"o1", "o2"}
OAuthTokens == {"s1", "s2"}

NoState == [present |-> FALSE, provider |-> "none"]

IdleOc == [pc |-> "idle", state |-> "none", provider |-> "none",
           returned |-> "none"]

\* secrets.token_urlsafe(32) gives a token no earlier call gave
create_oauth_state(state, name) ==
    /\ state \notin issued
    /\ issued' = issued \cup {state}
    /\ oauth' = [oauth EXCEPT ![state] = [present |-> TRUE,
                                          provider |-> name]]
    /\ UNCHANGED <<oc, consumed, nconsume>>
    /\ UNCHANGED <<now, rateVars, rlRunVars, coreVars, botVars, mwVars>>

\* consume_oauth_state up to the answer of GET: a missing key is returned
\* as None, a provider read goes on to DELETE
ConsumeGet(p, state) ==
    /\ oc[p].pc \in {"idle", "done"}
    /\ state \in issued
    /\ nconsume < MaxConsumes
    /\ nconsume' = nconsume + 1
    /\ LET value == oauth[state]
       IN  oc' = [oc EXCEPT ![p] =
                     IF value.present
                     THEN [IdleOc EXCEPT !.pc = "delete", !.state = state,
                                         !.provider = value.provider]
                     ELSE [IdleOc EXCEPT !.pc = "done", !.state = state]]
    /\ UNCHANGED <<oauth, issued, consumed>>
    /\ UNCHANGED <<now, rateVars, rlRunVars, coreVars, botVars, mwVars>>

ConsumeDelete(p) ==
    /\ oc[p].pc = "delete"
    /\ oauth' = [oauth EXCEPT ![oc[p].state] = NoState]
    /\ oc' = [oc EXCEPT ![p] = [@ EXCEPT !.pc = "done",
                                         !.returned = oc[p].provider]]
    /\ consumed' = [consumed EXCEPT ![oc[p].state] = @ + 1]
    /\ UNCHANGED <<issued, nconsume>>
    /\ UNCHANGED <<now, rateVars, rlRunVars, coreVars, botVars, mwVars>>

\* the key's OAUTH_STATE_TTL runs out
OAuthExpire(state) ==
    /\ oauth[state].present
    /\ oauth' = [oauth EXCEPT ![state] = NoState]
    /\ UNCHANGED <<oc, issued, consumed, nconsume>>
    /\ UNCHANGED <<now, rateVars, rlRunVars, coreVars, botVars, mwVars>>

(* ------------------------- RateLimitMiddleware -------------------------- *)
\* bot/middlewares/rate_limit.py: one sorted set ratelimit:<user>:<suffix>
\* per kind of event, whose members are the events' timestamps.  Time is
\* counted in instants, Quanta of them to the second.
MW_WINDOW_SECONDS == 60

Quanta == 2
MaxMwLimit == 2
MwClockStep == 30
MaxMwTime == 60
MaxEvents == 3

MwTasks == {"m1", "m2"}
Kinds == {"default", "voice", "callback"}

LimitOf(kind) ==
    IF kind = "voice" THEN mwLimit.voice_limit
    ELSE IF kind = "callback" THEN mwLimit.callback_limit
    ELSE mwLimit.default_limit

\* the sorted set as a command finds it: gone once its EXPIRE has run out
ZRead(kind) == IF mwClock >= zset[kind].exp THEN {} ELSE zset[kind].members

IdleMw == [pc |-> "idle", kind |-> "none", now |-> 0, outcome |-> "none"]

\* __call__ up to the pipeline: the kind's limit and key, now = time.time()
MwBegin(p, kind) ==
    /\ mw[p].pc \in {"idle", "done"}
    /\ nevents < MaxEvents
    /\ nevents' = nevents + 1
    /\ mw' = [mw EXCEPT ![p] = [IdleMw EXCEPT !.pc = "pipe", !.kind = kind,
                                              !.now = mwClock]]
    /\ UNCHANGED <<zset, passedAt, mwLimit, mwClock>>
    /\ UNCHANGED <<now, rateVars, rlRunVars, coreVars, botVars, oauthVars>>

\* the pipeline, run as one transaction: ZREMRANGEBYSCORE 0..window_start,
\* ZCARD, ZADD of the member str(now) (a member the set holds already is
\* not added a second time), EXPIRE; then is_limited = current_count >=
\* limit, and the handler is called when it is not
MwPipe(p) ==
    /\ mw[p].pc = "pipe"
    /\ LET kind == mw[p].kind
           window_start == mw[p].now - MW_WINDOW_SECONDS * Quanta
           kept == {s \in ZRead(kind) : s > window_start}
           current_count == Cardinality(kept)
           is_limited == current_count >= LimitOf(kind)
       IN  /\ zset' = [zset EXCEPT ![kind] =
                          [members |-> kept \cup {mw[p].now},
                           exp |-> mwClock + (MW_WINDOW_SECONDS + 1) * Quanta]]
           /\ mw' = [mw EXCEPT ![p] =
                        [IdleMw EXCEPT !.pc = "done", !.kind = kind,
                                       !.outcome = IF is_limited
                                                   THEN "limited"
                                                   ELSE "handled"]]
           /\ passedAt' = IF is_limited THEN passedAt
                          ELSE [passedAt EXCEPT ![kind] = Append(@, mw[p].now)]
    /\ UNCHANGED <<mwLimit, mwClock, nevents>>
    /\ UNCHANGED <<now, rateVars, rlRunVars, coreVars, botVars, oauthVars>>

\* the clock moves on: by one instant inside the second (seconds = 0), or
\* to the start of a later second
MwTick(seconds) ==
    /\ IF seconds = 0
       THEN /\ mwClock % Quanta < Quanta - 1
            /\ mwClock' = mwClock + 1
       ELSE /\ mwClock + seconds * Quanta <= MaxMwTime * Quanta
            /\ mwClock' = (mwClock \div Quanta) * Quanta + seconds * Quanta
    /\ UNCHANGED <<zset, mw, passedAt, mwLimit, nevents>>
    /\ UNCHANGED <<now, rateVars, rlRunVars, coreVars, botVars, oauthVars>>

(* --------------------------- initial states ---------------------------- *)
RateQuiet ==
    /\ counter = [k \in RateKeys |-> Absent]
    /\ rl = [p \in Tasks |-> IdleFrame]
    /\ hist = [k \in RateKeys |-> NoHist]
    /\ allowedAt = [k \in RateKeys |-> <<>>]
    /\ obs = [p \in Tasks |-> NoObs]

RLRunQuiet == limitN = 1 /\ windowW = 1 /\ ncalls = 0

JobQuiet ==
    /\ idem = [k \in IdemKeys |-> NoRecord]
    /\ job = [j \in Slots |-> IdleJob]
    /\ provider = <<>>
    /\ ndeliv = 0
    /\ lastOk = [x \in LogicalEvents |-> NoLastOk]

JobDbQuiet == dbUser = TRUE /\ dbProvider = NoIntegration

DirQuiet == dir = [p \in Tasks |-> IdleDir] /\ ndecisions = 0

ParseQuiet == par = [p \in Tasks |-> IdlePar] /\ nparse = 0

LocalQuiet == loc = IdleLoc

BotQuiet ==
    /\ pending = [i \in PendingIds |-> NoPending]
    /\ shown = [i \in PendingIds |-> FALSE]
    /\ cb = [p \in BotTasks |-> IdleCb]
    /\ reports = [i \in PendingIds |-> [created |-> 0, expired |-> 0]]
    /\ ncb = 0

OAuthQuiet ==
    /\ oauth = [t \in OAuthTokens |-> NoState]
    /\ issued = {}
    /\ oc = [p \in OAuthTasks |-> IdleOc]
    /\ consumed = [t \in OAuthTokens |-> 0]
    /\ nconsume = 0

\* the limits bot/main.py constructs the middleware with
MainLimits == [default_limit |-> 20, voice_limit |-> 10, callback_limit |-> 30]

MwStoreQuiet ==
    /\ zset = [k \in Kinds |-> [members |-> {}, exp |-> 0]]
    /\ mw = [p \in MwTasks |-> IdleMw]
    /\ passedAt = [k \in Kinds |-> <<>>]
    /\ mwClock = 0
    /\ nevents = 0

MwQuiet == MwStoreQuiet /\ mwLimit = MainLimits

\* a counter that already stands at val in a window opened at time 0
Standing(val, seconds) ==
    IF val = 0 THEN Absent
               ELSE [val |-> val, hasTTL |-> TRUE, exp |-> seconds]

StandingHist(val, max_requests) ==
    IF val = 0 THEN NoHist
               ELSE [calls |-> val, created |-> 0,
                     winAllowed |-> IF val < max_requests THEN val
                                                         ELSE max_requests,
                     winRejected |-> Max0(val - max_requests)]

(* ---------------------- rate-limiter runs ------------------------------ *)
RLBegin(p) ==
    /\ ncalls < MaxCalls
    /\ rl[p].pc = "idle"
    /\ RateCall(p, RLKey, limitN, windowW)
    /\ ncalls' = ncalls + 1
    /\ UNCHANGED <<now, counter, limitN, windowW, hist, allowedAt, obs>>
    /\ UNCHANGED appVars

\* the caller takes the answer
RLReturn(p) ==
    /\ rl[p].pc = "ret"
    /\ rl' = [rl EXCEPT ![p] = IdleFrame]
    /\ UNCHANGED <<now, counter, limitN, windowW, ncalls, hist, allowedAt, obs>>
    /\ UNCHANGED appVars

RLTick ==
    /\ now < MaxTime
    /\ now' = now + 1
    /\ counter' = RedisPurge(counter, now + 1)
    /\ hist' = PurgeHist(hist, RedisPurge(counter, now + 1))
    /\ UNCHANGED <<rl, limitN, windowW, ncalls, allowedAt, obs>>
    /\ UNCHANGED appVars

InitRL ==
    /\ now = 0
    /\ RateQuiet
    /\ limitN \in 1..MaxN
    /\ windowW \in 1..MaxW
    /\ ncalls = 0
    /\ JobQuiet /\ JobDbQuiet
    /\ DirQuiet
    /\ ParseQuiet
    /\ LocalQuiet
    /\ BotQuiet /\ OAuthQuiet /\ MwQuiet

NextRLHealthy ==
    \/ \E p \in Tasks : RLBegin(p)
    \/ \E p \in Tasks : RateIncr(p)
    \/ \E p \in Tasks : RateExpire(p)
    \/ \E p \in Tasks : RLReturn(p)
    \/ RLTick

NextRL ==
    \/ \E p \in Tasks : RLBegin(p)
    \/ \E p \in Tasks : RateIncr(p)
    \/ \E p \in Tasks : RateExpire(p)
    \/ \E p \in Tasks : RateIncrRaise(p)
    \/ \E p \in Tasks : RateExpireRaise(p)
    \/ \E p \in Tasks : RateCancel(p)
    \/ \E p \in Tasks : RLReturn(p)
    \/ RLTick

vars == <<now, rateVars, rlRunVars, coreVars, uiVars>>

(* --------------------- create_calendar_event runs ---------------------- *)
InitJob ==
    /\ now = 0
    /\ RateQuiet /\ RLRunQuiet
    /\ JobQuiet
    /\ dbUser \in BOOLEAN
    /\ dbProvider \in {NoIntegration, "google_calendar", "apple_calendar"}
    /\ DirQuiet
    /\ ParseQuiet
    /\ LocalQuiet
    /\ BotQuiet /\ OAuthQuiet /\ MwQuiet

NextJob ==
    \/ \E j \in Slots, a \in JobArgs : JobStart(j, a)
    \/ \E j \in Slots, a \in JobArgs : JobStartRaise(j, a)
    \/ \E j \in Slots : JobLookup(j)
    \/ \E j \in Slots : JobCreate(j)
    \/ \E j \in Slots : JobCreateRaise(j)
    \/ \E j \in Slots : JobStore(j)
    \/ \E j \in Slots : JobStoreRaise(j)
    \/ \E j \in Slots : JobCrash(j)
    \/ JobTick

SpecJob == InitJob /\ [][NextJob]_vars

(* --------------------------- director runs ----------------------------- *)
InitDir ==
    /\ now = 0
    /\ \E hourUsed, dayUsed \in BOOLEAN :
         LET gh == IF hourUsed THEN GPT_LIMIT_HOUR - 1 ELSE 0
             gd == IF dayUsed THEN GPT_LIMIT_DAY - 1 ELSE 0
             wh == IF hourUsed THEN WHISPER_LIMIT_HOUR - 1 ELSE 0
             wd == IF dayUsed THEN WHISPER_LIMIT_DAY - 1 ELSE 0
         IN
         /\ counter = [k \in RateKeys |->
                         IF k = GptHourKey THEN Standing(gh, HourSeconds)
                         ELSE IF k = GptDayKey THEN Standing(gd, DaySeconds)
                         ELSE IF k = WhisperHourKey THEN Standing(wh, HourSeconds)
                         ELSE IF k = WhisperDayKey THEN Standing(wd, DaySeconds)
                         ELSE Absent]
         /\ hist = [k \in RateKeys |->
                      IF k = GptHourKey THEN StandingHist(gh, GPT_LIMIT_HOUR)
                      ELSE IF k = GptDayKey THEN StandingHist(gd, GPT_LIMIT_DAY)
                      ELSE IF k = WhisperHourKey
                        THEN StandingHist(wh, WHISPER_LIMIT_HOUR)
                      ELSE IF k = WhisperDayKey
                        THEN StandingHist(wd, WHISPER_LIMIT_DAY)
                      ELSE NoHist]
    /\ rl = [p \in Tasks |-> IdleFrame]
    /\ allowedAt = [k \in RateKeys |-> <<>>]
    /\ obs = [p \in Tasks |-> NoObs]
    /\ RLRunQuiet
    /\ JobQuiet /\ JobDbQuiet
    /\ DirQuiet
    /\ ParseQuiet
    /\ LocalQuiet
    /\ BotQuiet /\ OAuthQuiet /\ MwQuiet

NextDir ==
    \/ \E p \in DirTasks, text \in Texts, v, f \in BOOLEAN :
          DirParseBegin(p, text, v, f)
    \/ \E p \in DirTasks : DirParseHour(p)
    \/ \E p \in DirTasks : DirParseDay(p)
    \/ \E p \in DirTasks, a \in AudioSeconds : DirTransBegin(p, a)
    \/ \E p \in DirTasks : DirTransHour(p)
    \/ \E p \in DirTasks : DirTransDay(p)
    \/ \E p \in DirTasks, u \in {"gpt", "whisper"} : DirRecordBegin(p, u)
    \/ \E p \in DirTasks : DirRecordStep(p)
    \/ \E p \in DirTasks : RateIncr(p)
    \/ \E p \in DirTasks : RateExpire(p)
    \/ \E p \in DirTasks : RateIncrRaise(p)
    \/ \E p \in DirTasks : RateExpireRaise(p)

SpecDir == InitDir /\ [][NextDir]_vars

(* ------------------------- message-parsing runs ------------------------ *)
InitParse ==
    /\ now = 0
    /\ \E g \in {0, JobGptLimit - 1, JobGptLimit} :
         /\ counter = [k \in RateKeys |->
                         IF k = GptJobKey THEN Standing(g, JobGptWindow)
                                          ELSE Absent]
         /\ hist = [k \in RateKeys |->
                      IF k = GptJobKey THEN StandingHist(g, JobGptLimit)
                                       ELSE NoHist]
    /\ rl = [p \in Tasks |-> IdleFrame]
    /\ allowedAt = [k \in RateKeys |-> <<>>]
    /\ obs = [p \in Tasks |-> NoObs]
    /\ RLRunQuiet
    /\ JobQuiet /\ JobDbQuiet
    /\ DirQuiet
    /\ ParseQuiet
    /\ LocalQuiet
    /\ BotQuiet /\ OAuthQuiet /\ MwQuiet

NextParse ==
    \/ \E p \in Tasks : EndpointParse(p)
    \/ \E p \in Tasks, u \in BOOLEAN : JobParseBegin(p, u)
    \/ \E p \in Tasks : JobParseRate(p)
    \/ \E p \in Tasks, r \in Replies : LlmReply(p, r)
    \/ \E p \in Tasks : LlmRaise(p)
    \/ \E p \in Tasks : RateIncr(p)
    \/ \E p \in Tasks : RateExpire(p)
    \/ \E p \in Tasks : RateIncrRaise(p)
    \/ \E p \in Tasks : RateExpireRaise(p)

SpecParse == InitParse /\ [][NextParse]_vars

\* the same requests with a store that answers every command
NextParseHealthy ==
    \/ \E p \in Tasks : EndpointParse(p)
    \/ \E p \in Tasks, u \in BOOLEAN : JobParseBegin(p, u)
    \/ \E p \in Tasks : JobParseRate(p)
    \/ \E p \in Tasks, r \in Replies : LlmReply(p, r)
    \/ \E p \in Tasks : LlmRaise(p)
    \/ \E p \in Tasks : RateIncr(p)
    \/ \E p \in Tasks : RateExpire(p)

SpecParseHealthy == InitParse /\ [][NextParseHealthy]_vars

(* ------------------------ local-classifier runs ------------------------ *)
InitLocal ==
    /\ now = 0
    /\ RateQuiet /\ RLRunQuiet
    /\ JobQuiet /\ JobDbQuiet
    /\ DirQuiet
    /\ ParseQuiet
    /\ LocalQuiet
    /\ BotQuiet /\ OAuthQuiet /\ MwQuiet

NextLocal ==
    \/ /\ loc.pc = "idle"
       /\ \E text \in LocalTexts, clock \in Clocks : LocalBegin(text, clock)
    \/ LocalNote
    \/ LocalDates
    \/ LocalFinish

SpecLocal == InitLocal /\ [][NextLocal]_vars

(* --------------------------- pending-event runs ------------------------- *)
InitBot ==
    /\ now = 0
    /\ RateQuiet /\ RLRunQuiet
    /\ JobQuiet /\ JobDbQuiet
    /\ DirQuiet
    /\ ParseQuiet
    /\ LocalQuiet
    /\ BotQuiet /\ OAuthQuiet /\ MwQuiet

NextBot ==
    \/ \E id \in PendingIds, result \in ParsedEvents : HandleText(id, result)
    \/ \E p \in BotTasks, op \in {"confirm", "meet", "zoom"}, id \in PendingIds :
           CreateGet(p, op, id)
    \/ \E p \in BotTasks : CreateSave(p)
    \/ \E p \in BotTasks : CreateReport(p)
    \/ \E p \in BotTasks : CreateDelete(p)
    \/ \E p \in BotTasks, id \in PendingIds : CancelEvent(p, id)
    \/ \E p \in BotTasks, id \in PendingIds, has_parsed \in BOOLEAN,
          parsed_dt \in {900} :
           EditTimeGet(p, id, has_parsed, parsed_dt)
    \/ \E p \in BotTasks : EditTimeSave(p)

SpecBot == InitBot /\ [][NextBot]_vars

(* ---------------------------- OAuth-state runs -------------------------- *)
InitOAuth ==
    /\ now = 0
    /\ RateQuiet /\ RLRunQuiet
    /\ JobQuiet /\ JobDbQuiet
    /\ DirQuiet
    /\ ParseQuiet
    /\ LocalQuiet
    /\ BotQuiet /\ OAuthQuiet /\ MwQuiet

NextOAuth ==
    \/ \E state \in OAuthTokens, name \in {"google", "zoom"} :
           create_oauth_state(state, name)
    \/ \E p \in OAuthTasks, state \in OAuthTokens : ConsumeGet(p, state)
    \/ \E p \in OAuthTasks : ConsumeDelete(p)
    \/ \E state \in OAuthTokens : OAuthExpire(state)

SpecOAuth == InitOAuth /\ [][NextOAuth]_vars

(* ---------------------------- middleware runs --------------------------- *)
InitMw ==
    /\ now = 0
    /\ RateQuiet /\ RLRunQuiet
    /\ JobQuiet /\ JobDbQuiet
    /\ DirQuiet
    /\ ParseQuiet
    /\ LocalQuiet
    /\ BotQuiet /\ OAuthQuiet /\ MwStoreQuiet
    /\ mwLimit \in [default_limit : 1..MaxMwLimit, voice_limit : 1..MaxMwLimit,
                    callback_limit : 1..MaxMwLimit]

NextMw ==
    \/ \E p \in MwTasks, kind \in Kinds : MwBegin(p, kind)
    \/ \E p \in MwTasks : MwPipe(p)
    \/ MwTick(0)
    \/ MwTick(MwClockStep)

SpecMw == InitMw /\ [][NextMw]_vars

SpecRLHealthy == InitRL /\ [][NextRLHealthy]_vars
SpecRL == InitRL /\ [][NextRL]_vars

(* ------------------------ rate-limiter properties ---------------------- *)
\* C3: with a healthy store the k-th call on a key inside one window returns
\* is_allowed = (k <= max_requests) and remaining = max(0, max_requests - k);
\* a refused call has remaining = 0 and remaining is never negative.
C3_KthCallAnswer ==
    \A p \in Tasks :
        rl[p].pc = "ret" =>
            /\ rl[p].allowed = (obs[p].ord <= rl[p].max)
            /\ rl[p].remaining = Max0(rl[p].max - obs[p].ord)
            /\ (~rl[p].allowed => rl[p].remaining = 0)
            /\ rl[p].remaining >= 0

\* two callers in flight at once, one of them the (max_requests+1)-th
C3_Witness ==
    \E p, q \in Tasks :
        /\ p # q
        /\ rl[p].pc = "ret" /\ obs[p].ord = rl[p].max + 1 /\ ~rl[p].allowed
        /\ rl[q].pc = "expire"

AllowedIn(key, from, to) ==
    Cardinality({i \in DOMAIN allowedAt[key] :
                    allowedAt[key][i] >= from /\ allowedAt[key][i] < to})

\* C4 as stated: in every period of window_seconds, wherever it starts, at
\* most max_requests calls on the key are answered allowed.
C4_SlidingPeriod ==
    \A t \in 0..MaxTime : AllowedIn(RLKey, t, t + windowW) <= limitN

\* C4 amended: between the creation of the key's counter and its expiry at
\* most max_requests calls are answered allowed (healthy store).
C4_FixedWindow == hist[RLKey].winAllowed <= limitN

\* the window is used up and a further call in it was refused
C4_Witness ==
    /\ hist[RLKey].winAllowed = limitN
    /\ hist[RLKey].winRejected > 0
    /\ \E p \in Tasks : rl[p].pc = "ret" /\ ~rl[p].allowed

\* C5: once window_seconds have passed since the call that created the
\* counter, the next call on the key is answered allowed, in every execution
\* (no caller being still on its way from the INCR to the EXPIRE).
C5_FreshAfterWindow ==
    \A p \in Tasks :
        (/\ rl[p].pc = "ret"
         /\ obs[p].at - obs[p].created >= rl[p].win
         /\ \A q \in Tasks : rl[q].pc # "expire")
            => rl[p].allowed

\* C6 as stated: the counter never exceeds max_requests + 1.
C6_CounterCapped == counter[RLKey].val <= limitN + 1

\* C6 amended: the counter never exceeds max_requests plus the number of
\* calls refused in the window (every refused call is still counted).
C6_CounterBound ==
    counter[RLKey].val <= limitN + hist[RLKey].winRejected

\* two calls were refused in one window and the counter stands at N + 2
C6_Witness ==
    /\ hist[RLKey].winRejected = 2
    /\ counter[RLKey].val = limitN + 2

(* ------------------- create_calendar_event properties ------------------ *)
\* C1: for one logical event the provider creates at most one event within
\* the one-hour life of the idempotency record, under every schedule of
\* deliveries (overlapping deliveries, crashes before the record is written).
C1_AtMostOneCreate ==
    \A i, k \in DOMAIN provider :
        (i < k /\ provider[i].key = provider[k].key)
            => provider[k].at - provider[i].at >= IdemTTL

\* C2: a call made after a successful completion for the same (user_id,
\* title, start_datetime), less than 3600 seconds later and whatever its other
\* arguments, returns the stored result of that completion and calls no
\* connector.
C2_SecondCallReturnsStored ==
    \A j \in Slots :
        job[j].prior.has =>
            /\ job[j].pc = "done"
            /\ job[j].result = job[j].prior.stored
            /\ ~job[j].called

\* a second call, half an hour after the first one completed, was answered
\* from the record
C2_Witness ==
    \E j \in Slots :
        /\ job[j].prior.has /\ job[j].pc = "done"
        /\ job[j].result.success /\ job[j].result.form = "text"
        /\ job[j].prior.age = JobClockStep
        /\ Len(provider) = 1

(* --------------------------- director properties ----------------------- *)
AllChecksRaised(d) ==
    /\ d.hour.asked /\ d.hour.raised
    /\ (d.day.asked => d.day.raised)

\* C7: when the store raises on the increment or on the expire,
\* check_rate_limit returns (True, max_requests); with an unreachable store
\* decide_parsing_mode never answers LOCAL_ONLY for quota and
\* decide_transcription_mode never answers QUEUE_FOR_LATER.
C7_FailOpen ==
    /\ \A p \in Tasks :
         (rl[p].pc = "ret" /\ rl[p].raised)
            => (rl[p].allowed /\ rl[p].remaining = rl[p].max)
    /\ \A p \in Tasks :
         (dir[p].pc = "done" /\ AllChecksRaised(dir[p])) =>
            /\ dir[p].op = "parse"
                 => dir[p].decision.reason # "Rate limit reached"
            /\ dir[p].op = "transcribe"
                 => dir[p].decision.mode # "QUEUE_FOR_LATER"

\* the hourly counter stands at its limit, both checks raised, and the
\* message was still routed to the LLM
C7_Witness ==
    \E p \in Tasks :
        /\ dir[p].pc = "done" /\ dir[p].op = "parse"
        /\ dir[p].hour.raised /\ dir[p].day.raised
        /\ dir[p].hour.remaining = GPT_LIMIT_HOUR
        /\ counter[GptHourKey].val >= GPT_LIMIT_HOUR
        /\ dir[p].decision.mode = "GPT_ONLY"

\* C8: whenever the hourly or the daily LLM check is refused,
\* decide_parsing_mode answers LOCAL_ONLY with threshold 0.5, whatever the
\* text, its complexity, is_voice and is_forwarded.
C8_ExhaustedIsLocalOnly ==
    \A p \in Tasks :
        (/\ dir[p].pc = "done" /\ dir[p].op = "parse"
         /\ (~dir[p].hour.allowed \/ ~dir[p].day.allowed))
            => /\ dir[p].decision.mode = "LOCAL_ONLY"
               /\ dir[p].decision.confidence_threshold = 50

\* only the daily quota is exhausted, for a forwarded complex message
C8_Witness ==
    \E p \in Tasks :
        /\ dir[p].pc = "done" /\ dir[p].op = "parse"
        /\ dir[p].hour.allowed /\ ~dir[p].day.allowed
        /\ dir[p].complexity = "complex" /\ dir[p].forwarded
        /\ dir[p].decision.mode = "LOCAL_ONLY"

\* C9: with both quotas available the complexity class alone decides:
\* simple gives LOCAL_ONLY at 0.6, medium LOCAL_WITH_GPT_FALLBACK at 0.7,
\* complex GPT_ONLY at 0.8 with 1500 tokens; a forwarded simple or medium
\* message is not sent to GPT_ONLY and the default rule is never selected.
C9_ComplexityDecides ==
    \A p \in Tasks :
        (/\ dir[p].pc = "done" /\ dir[p].op = "parse"
         /\ dir[p].hour.allowed /\ dir[p].day.allowed) =>
            LET d == dir[p].decision
                c == dir[p].complexity
            IN /\ c \in {"simple", "medium", "complex"}
               /\ c = "simple"
                    => (d.mode = "LOCAL_ONLY" /\ d.confidence_threshold = 60)
               /\ c = "medium"
                    => (/\ d.mode = "LOCAL_WITH_GPT_FALLBACK"
                        /\ d.confidence_threshold = 70)
               /\ c = "complex"
                    => (/\ d.mode = "GPT_ONLY"
                        /\ d.confidence_threshold = 80
                        /\ d.max_tokens = 1500)
               /\ d.reason # "Default processing mode"

\* a forwarded message of medium complexity, quota available
C9_Witness ==
    \E p \in Tasks :
        /\ dir[p].pc = "done" /\ dir[p].op = "parse"
        /\ dir[p].hour.allowed /\ dir[p].day.allowed
        /\ ~dir[p].hour.raised /\ ~dir[p].day.raised
        /\ dir[p].forwarded /\ dir[p].complexity = "medium"
        /\ dir[p].decision.mode = "LOCAL_WITH_GPT_FALLBACK"

(* ------------------------ message-parsing properties ------------------- *)
\* C10: on every path that handles a message the LLM completion call is made
\* only after the Decision Engine answered GPT_ONLY, or answered
\* LOCAL_WITH_GPT_FALLBACK and the local confidence was below the threshold.
C10_LlmOnlyWhenDecided ==
    \A p \in Tasks :
        par[p].llmCalled =>
            \/ par[p].decision.mode = "GPT_ONLY"
            \/ /\ par[p].decision.mode = "LOCAL_WITH_GPT_FALLBACK"
               /\ par[p].local.ran
               /\ par[p].local.confidence
                    < par[p].decision.confidence_threshold

(* ------------------------ transcription decisions ---------------------- *)
\* C11: decide_transcription_mode answers QUEUE_FOR_LATER with delay 60 when
\* the hourly speech-to-text check is refused (the daily one is then not
\* asked), QUEUE_FOR_LATER with delay 3600 when the hourly check allows and
\* the daily one is refused, and GPT_ONLY with delay 0 otherwise, whatever
\* audio_duration_seconds is.
C11_TranscriptionMode ==
    \A p \in Tasks :
        (dir[p].pc = "done" /\ dir[p].op = "transcribe") =>
            LET d == dir[p].decision
            IN /\ dir[p].hour.asked
               /\ ~dir[p].hour.allowed
                    => (/\ d.mode = "QUEUE_FOR_LATER" /\ d.delay_seconds = 60
                        /\ ~dir[p].day.asked)
               /\ (dir[p].hour.allowed /\ ~dir[p].day.allowed)
                    => (/\ d.mode = "QUEUE_FOR_LATER" /\ d.delay_seconds = 3600
                        /\ dir[p].day.asked)
               /\ (dir[p].hour.allowed /\ dir[p].day.allowed)
                    => (/\ d.mode = "GPT_ONLY" /\ d.delay_seconds = 0
                        /\ dir[p].day.asked)

\* a long recording, the hourly counter below its limit and the daily one
\* over it: queued for an hour
C11_Witness ==
    \E p \in Tasks :
        /\ dir[p].pc = "done" /\ dir[p].op = "transcribe"
        /\ dir[p].audio > 120
        /\ dir[p].hour.allowed /\ ~dir[p].hour.raised
        /\ dir[p].day.asked /\ ~dir[p].day.allowed
        /\ counter[WhisperDayKey].val > WHISPER_LIMIT_DAY
        /\ counter[WhisperHourKey].val <= WHISPER_LIMIT_HOUR
        /\ dir[p].decision.delay_seconds = 3600

(* -------------------------- complexity classes ------------------------- *)
\* C12: every text that contains at least two complexity indicators is
\* classified complex, whether or not it also matches a simple pattern.
C12_TwoIndicatorsComplex ==
    \A p \in Tasks :
        (/\ dir[p].pc = "done" /\ dir[p].op = "parse"
         /\ dir[p].text.indicators >= 2)
            => dir[p].complexity = "complex"

\* C13: a text that matches no simple pattern, contains no complexity
\* indicator and is at most 150 characters long is classified medium, and
\* with both quotas available it is routed LOCAL_WITH_GPT_FALLBACK.
C13_DefaultIsMedium ==
    \A p \in Tasks :
        (/\ dir[p].pc = "done" /\ dir[p].op = "parse"
         /\ ~dir[p].text.simple_pattern
         /\ dir[p].text.indicators = 0
         /\ dir[p].text.length <= 150)
            => /\ dir[p].complexity = "medium"
               /\ (dir[p].hour.allowed /\ dir[p].day.allowed)
                    => dir[p].decision.mode = "LOCAL_WITH_GPT_FALLBACK"

(* ------------------------ idempotency records -------------------------- *)
\* C14: when the idempotency store raises, on the read of the key or on the
\* write of the record, create_calendar_event still creates the event and
\* returns its result: the job does not raise on the read, and a failed write
\* after a successful creation does not turn the result into a failure.
C14_StoreFailureReexecutes ==
    \A j \in Slots :
        /\ job[j].pc # "raised"
        /\ (job[j].pc = "done" /\ job[j].evt # NoEvent) => job[j].result.success

\* C15: a record is written only after a successful event creation, with
\* the result of that creation, and once written it keeps its value until it
\* expires, under every interleaving of jobs with the same key.
C15_RecordWrittenOnce ==
    [][\A k \in IdemKeys :
         /\ (idem'[k] # idem[k] /\ idem'[k].present)
              => /\ idem'[k].value.success
                 /\ \E i \in DOMAIN provider :
                       /\ provider[i].key = k
                       /\ provider[i].id = idem'[k].value.id
         /\ idem[k].present
              => \/ idem'[k] = idem[k]
                 \/ ~idem'[k].present /\ idem[k].exp <= now']_vars

(* --------------------------- parse_message ----------------------------- *)
\* C16: when the response text, its code-fence markers stripped, does not
\* decode as JSON, parse_message does not raise and returns content_type
\* unclear, confidence 0.0 and a non-empty clarification_needed.
C16_UndecodableIsUnclear ==
    \A p \in Tasks :
        (par[p].reply # NoReply /\ ~Decodable(StripFences(par[p].reply)))
            => /\ par[p].pm = "returned" /\ par[p].pc = "done"
               /\ par[p].result.status = "ok"
               /\ par[p].result.content_type = "unclear"
               /\ par[p].result.confidence = 0
               /\ par[p].result.clarification

\* a sentence before the fenced JSON: the text does not decode
C16_Witness ==
    \E p \in Tasks :
        /\ par[p].reply.shape = "prose_then_fenced"
        /\ par[p].reply.body.kind = "object"
        /\ par[p].pm = "returned"
        /\ par[p].result.content_type = "unclear"
        /\ par[p].result.clarification

\* C17: for every response text of a successful completion call, decodable
\* JSON of the wrong shape included, parse_message returns a ParsedContent
\* and does not raise; it raises only when the call itself failed.
C17_ReplyNeverRaises ==
    \A p \in Tasks :
        par[p].reply # NoReply
            => /\ par[p].pm = "returned"
               /\ par[p].result.content_type \in ContentTypes
               /\ par[p].result.confidence \in 0..100

(* ----------------------- local-classifier properties ------------------ *)
\* C18: detect_content_type follows the decision table over (note_score,
\* event_score, has_date, has_time), first match winning: note_score > 0,
\* event_score = 0 and no time gives note with 0.8 + 0.05 * note_score;
\* event_score > 0 or a time gives event with min(0.95, 0.6 + 0.1 *
\* event_score + 0.1 if has_date + 0.1 if has_time); only a date gives event
\* with 0.5; otherwise unclear with 0.3.
C18_DecisionTable ==
    loc.pc # "idle" =>
        LET ns == loc.text.note_score
            es == loc.text.event_score
            has_date == loc.text.strict_date
            has_time == \/ loc.text.time.named # "none"
                        \/ loc.text.time.has_digits
                        \/ loc.text.clock_pattern
            d == loc.detected
            sum == 60 + 10 * es + (IF has_date THEN 10 ELSE 0)
                      + (IF has_time THEN 10 ELSE 0)
        IN /\ (ns > 0 /\ es = 0 /\ ~has_time)
                => (d.content_type = "note" /\ d.confidence = 80 + 5 * ns)
           /\ (~(ns > 0 /\ es = 0 /\ ~has_time) /\ (es > 0 \/ has_time))
                => /\ d.content_type = "event"
                   /\ d.confidence = (IF sum > 95 THEN 95 ELSE sum)
           /\ (~(ns > 0 /\ es = 0 /\ ~has_time) /\ ~(es > 0 \/ has_time)
                 /\ has_date)
                => (d.content_type = "event" /\ d.confidence = 50)
           /\ (ns = 0 /\ es = 0 /\ ~has_time /\ ~has_date)
                => (d.content_type = "unclear" /\ d.confidence = 30)

\* two event keywords with a date and a time: the cap of 0.95 applies
C18_Witness ==
    /\ loc.pc = "done"
    /\ loc.text.event_score = 2 /\ loc.text.strict_date
    /\ loc.text.time.has_digits
    /\ loc.detected.content_type = "event"
    /\ loc.detected.confidence = 95

\* C19: the confidence of every result parse_date_local returns lies in
\* [0, 1], for every text.
C19_ConfidenceInRange ==
    loc.pc = "done" => loc.result.confidence \in 0..100

\* C20: for a text with an explicit time and no date, the start_datetime
\* parse_date_local returns is today at that time when that instant is
\* strictly later than now, otherwise tomorrow at that time; it is never
\* earlier than or equal to now.
C20_TodayOrTomorrow ==
    (/\ loc.pc = "done"
     /\ extract_time_from_text(loc.text.time).found
     /\ ~loc.text.parsed.found) =>
        LET t == extract_time_from_text(loc.text.time)
            today_at == Instant(0, t.hour, t.minute, 0)
            now_at == ClockInstant(loc.clock)
            r == loc.result
        IN /\ r.has_start
           /\ today_at > now_at => r.start_datetime = today_at
           /\ today_at <= now_at
                => r.start_datetime = today_at + SecondsOfDay
           /\ r.start_datetime > now_at

\* the time of the text is the minute the call is made in, to the second:
\* the event is set for tomorrow
C20_Witness ==
    /\ loc.pc = "done"
    /\ loc.text.time.has_digits /\ ~loc.text.parsed.found
    /\ extract_time_from_text(loc.text.time).hour = loc.clock.hour
    /\ extract_time_from_text(loc.text.time).minute = loc.clock.minute
    /\ loc.clock.second = 0
    /\ loc.result.start_datetime = ClockInstant(loc.clock) + SecondsOfDay

\* C21: parse_date_local never raises: for every text, one whose time
\* expression has an hour of 24 or more or a minute of 60 or more included,
\* it returns a result.
C21_LocalNeverRaises == loc.pc # "raised"

\* C22: for every result of parse_date_local, success is true exactly when
\* the content type is note, or it is event and start_datetime is set;
\* needs_gpt is true exactly when success is false; a result classified
\* unclear never has success = true.
C22_SuccessIffUsable ==
    loc.pc = "done" =>
        LET r == loc.result
            content_type == loc.detected.content_type
        IN /\ r.success <=> \/ content_type = "note"
                            \/ content_type = "event" /\ r.has_start
           /\ r.needs_gpt <=> ~r.success
           /\ content_type = "unclear" => ~r.success

(* ------------------------ results handed to the UI --------------------- *)
\* C23: every parse result with content_type = event, from the LLM parser
\* or from the local classifier, has start_datetime set or
\* clarification_needed set.
C23_EventHasStartOrQuestion ==
    /\ \A p \in Tasks :
         (par[p].pm = "returned" /\ par[p].result.content_type = "event")
            => (par[p].result.has_start \/ par[p].result.clarification)
    /\ (loc.pc = "done" /\ loc.result.is_event) => loc.result.has_start

(* ------------------------ pending-event properties ---------------------- *)
\* C24: whenever start_datetime is set, end_datetime = start_datetime +
\* duration_minutes: in every result of parse_date_local and in every stored
\* pending event after any sequence of edits, edit_time_finish on an event
\* whose duration_minutes is not 60 included.
C24_EndIsStartPlusDuration ==
    /\ (loc.pc = "done" /\ loc.result.has_start) =>
           /\ loc.result.has_end
           /\ loc.result.end_datetime =
                  loc.result.start_datetime + loc.result.duration_minutes * 60
    /\ \A id \in PendingIds :
           (pending[id].present /\ pending[id].has_start) =>
               /\ pending[id].has_end
               /\ pending[id].end_datetime =
                      pending[id].start_datetime + pending[id].duration_minutes

\* C29: for each pending event id at most one of the creating callbacks
\* (confirm, meet, zoom) reports the event as created, under any
\* interleaving of two callbacks for the same id.
C29_CreatedOnce ==
    \A id \in PendingIds : reports[id].created <= 1

(* -------------------------- OAuth-state property ------------------------ *)
\* C25: an OAuth state token is one-time use: for each token created at most
\* one call of consume_oauth_state returns its provider, under any
\* interleaving of concurrent consume calls for the same token.
C25_ConsumedOnce ==
    \A state \in OAuthTokens : consumed[state] <= 1

(* --------------------------- middleware property ------------------------ *)
\* the events of a kind handled in the window_seconds that end at instant t
HandledIn(kind, t) ==
    {i \in DOMAIN passedAt[kind] :
        /\ passedAt[kind][i] <= t
        /\ passedAt[kind][i] > t - MW_WINDOW_SECONDS * Quanta}

\* C26: for each kind of event the middleware passes at most `limit` events
\* to the handler in any period of window_seconds, under any arrival times,
\* several events with one timestamp and concurrent events included.
C26_AtMostLimitPerWindow ==
    \A kind \in Kinds :
        \A i \in DOMAIN passedAt[kind] :
            Cardinality(HandledIn(kind, passedAt[kind][i])) <= LimitOf(kind)

(* ------------------------- quota-counter property ----------------------- *)
\* the counters a finished call of the director worked on
HourKeyOf(d) ==
    IF d.op = "parse" \/ d.usage = "gpt" THEN GptHourKey ELSE WhisperHourKey

DayKeyOf(d) ==
    IF d.op = "parse" \/ d.usage = "gpt" THEN GptDayKey ELSE WhisperDayKey

C28_SuccessIffCreatedOrFound ==
    [][\A j \in Slots :
         (job'[j].pc = "done" /\ job'[j] # job[j]) =>
            /\ job'[j].result.success
                 <=> (job[j].pc = "setex" \/ JobFree(j))
            /\ job[j].pc = "setex"
                 => /\ job'[j].result.success
                    /\ idem'[job[j].key].present]_vars

(* ----------------------- parse_message_gpt's quota ---------------------- *)
\* C30: with a healthy store the parse_message_gpt job makes at most 50 LLM
\* completion calls per user in the 3600 seconds after the user's counter
\* gpt:<user_id> was created, under any number of concurrently running jobs
\* of that user (every such call follows an allowed answer of its own, and at
\* most 50 answers of a window are allowed); a job whose check is not allowed
\* returns success = False with content_type unclear without calling the
\* LLM; the counter is not the director's gpt:hour:<user_id> or
\* gpt:day:<user_id>, which the job leaves alone.
C30_JobQuota ==
    /\ hist[GptJobKey].winAllowed <= JobGptLimit
    /\ \A p \in Tasks :
         (par[p].path = "job" /\ par[p].check.asked) =>
            /\ (par[p].pc = "llm" \/ par[p].llmCalled) => par[p].check.allowed
            /\ par[p].check.allowed = (obs[p].ord <= JobGptLimit)
            /\ (par[p].pc = "done" /\ ~par[p].check.allowed) =>
                  /\ ~par[p].llmCalled
                  /\ par[p].result.status = "error"
                  /\ par[p].result.content_type = "unclear"
    /\ GptJobKey \notin {GptHourKey, GptDayKey}
    /\ counter[GptHourKey] = Absent /\ counter[GptDayKey] = Absent

\* two jobs of one user at the end of a window: the one that took the 50th
\* unit called the LLM, the other was refused and did not
C30_Witness ==
    \E p, q \in Tasks :
        /\ par[p].path = "job" /\ par[p].pc = "done"
        /\ par[p].check.asked /\ par[p].check.allowed /\ par[p].llmCalled
        /\ par[q].path = "job" /\ par[q].pc = "done"
        /\ par[q].check.asked /\ ~par[q].check.allowed /\ ~par[q].llmCalled
        /\ par[q].result.status = "error"
        /\ hist[GptJobKey].winAllowed = JobGptLimit
        /\ hist[GptJobKey].winRejected >= 1

====
